---- MODULE Spec2Model ----
(***************************************************************************)
(* Model of the three scripts under src/agents:                            *)
(*   threatfox_daily_report.py  (the daily-report orchestrator),           *)
(*   threatfox_ioc.py           (the feed client and its command line),    *)
(*   anythingllm_chat.py        (the single-question chat script).         *)
(* Each run is one sequential process; an action is one step of main():    *)
(* one remote call together with the handling of its outcome.  The remote  *)
(* services are the environment: every response is chosen by \E from a     *)
(* small set of shapes.  Python strings are TLA+ strings handled character *)
(* by character; JSON values are tagged records.                           *)
(***************************************************************************)
EXTENDS Integers, Sequences, FiniteSets, TLC

VARIABLES
    script,       \* which script runs: "daily", "ioc" or "chat"
    env,          \* os.environ: function from the names that are set to their values
    args,         \* parsed command line: function, "mission" present when --mission given
    pc,           \* position in main()
    exitCode,     \* -1 while running, else the process exit status
    crashed,      \* TRUE when the process ended by an uncaught exception
    log,          \* every request issued (and the settling sleep), in order,
                  \* each with how it ended
    normalized,   \* main: normalized = {"query_status", "count", "data"}
    ws_slug,      \* main: ws_slug / slug
    thread_slug,  \* main: thread_slug (JSON value; Null = workspace-level chat)
    created_slug, \* main: created_slug
    questions,    \* main: questions
    turn,         \* loop index i of the conversation loop (0 before the loop)
    failedTurns,  \* the turns whose chat_stream raised RequestException
    tmpdir,       \* TRUE while the TemporaryDirectory exists
    printed       \* what the script printed on stdout (JSON value, Null = nothing)

vars == <<script, env, args, pc, exitCode, crashed, log, normalized, ws_slug,
          thread_slug, created_slug, questions, turn, failedTurns, tmpdir, printed>>

-----------------------------------------------------------------------------
(* Python str operations *)

Ch(s, i) == SubSeq(s, i, i)

Whitespace == {" ", "\t", "\n", "\r"}

RECURSIVE LStrip(_)
LStrip(s) ==
    IF Len(s) > 0 /\ Ch(s, 1) \in Whitespace
    THEN LStrip(SubSeq(s, 2, Len(s)))
    ELSE s

RECURSIVE RStrip(_)
RStrip(s) ==
    IF Len(s) > 0 /\ Ch(s, Len(s)) \in Whitespace
    THEN RStrip(SubSeq(s, 1, Len(s) - 1))
    ELSE s

\* str.strip()
Strip(s) == LStrip(RStrip(s))

UpperChars == <<"A","B","C","D","E","F","G","H","I","J","K","L","M",
                "N","O","P","Q","R","S","T","U","V","W","X","Y","Z">>
LowerChars == <<"a","b","c","d","e","f","g","h","i","j","k","l","m",
                "n","o","p","q","r","s","t","u","v","w","x","y","z">>

LowerCh(c) ==
    IF \E k \in 1..26 : UpperChars[k] = c
    THEN LowerChars[CHOOSE k \in 1..26 : UpperChars[k] = c]
    ELSE c

RECURSIVE Lower(_)
\* str.lower()
Lower(s) ==
    IF Len(s) = 0 THEN ""
    ELSE LowerCh(Ch(s, 1)) \o Lower(SubSeq(s, 2, Len(s)))

-----------------------------------------------------------------------------
(* JSON values as returned by resp.json(), and the dict operations used *)

Null == [t |-> "null"]
Str(s) == [t |-> "str", v |-> s]
Num(n) == [t |-> "num", v |-> n]
Obj(f) == [t |-> "obj", v |-> f]
Lst(q) == [t |-> "list", v |-> q]
Bool(b) == [t |-> "bool", v |-> b]
EmptyObj == Obj(<<>>)
EmptyLst == Lst(<<>>)

\* Python truthiness
Truthy(x) ==
    CASE x.t = "null" -> FALSE
      [] x.t = "str"  -> Len(x.v) > 0
      [] x.t = "num"  -> x.v # 0
      [] x.t = "bool" -> x.v
      [] x.t = "obj"  -> DOMAIN x.v # {}
      [] x.t = "list" -> Len(x.v) > 0

\* a or b
Or(a, b) == IF Truthy(a) THEN a ELSE b

\* d.get(k, dflt)
GetD(d, k, dflt) == IF k \in DOMAIN d.v THEN d.v[k] ELSE dflt

\* d.get(k)
Get(d, k) == GetD(d, k, Null)

-----------------------------------------------------------------------------
(* Environment *)

IsSet(name) == name \in DOMAIN env

\* os.getenv(name, dflt)
Getenv(name, dflt) == IF IsSet(name) THEN env[name] ELSE dflt

-----------------------------------------------------------------------------
(* HTTP: a response of the requests library.  net = "error" is a connection *)
(* failure or timeout (requests raises a RequestException); otherwise the   *)
(* response has a status and a body.                                        *)

NetError == [net |-> "error"]
Http(status, body) == [net |-> "ok", status |-> status, body |-> body]

\* requests.post/get raising, or resp.raise_for_status() raising HTTPError
RaisesRequestException(resp) == resp.net = "error" \/ resp.status >= 400

\* how a request ended, as the log records it
Outcome(resp) ==
    IF resp.net = "error" THEN "transport"
    ELSE IF resp.status >= 400 THEN "status"
    ELSE "ok"

\* What a Python call does: return a value or raise
Return(v) == [exc |-> "none", val |-> v]
Raise(e) == [exc |-> e]

-----------------------------------------------------------------------------
(* threatfox_daily_report.py / anythingllm_chat.py: workspace directory *)

\* get_workspaces, given the response of GET /api/v1/workspaces
get_workspaces(resp) ==
    IF RaisesRequestException(resp) THEN Raise("RequestException")
    ELSE Return(Or(Get(resp.body, "workspaces"), EmptyLst))

\* the for loop of get_workspace_slug: first workspace whose name matches key
RECURSIVE FirstMatch(_, _, _)
FirstMatch(workspaces, key, k) ==
    IF k > Len(workspaces) THEN Null
    ELSE LET ws == workspaces[k]
             nm == Or(Get(ws, "name"), Str(""))
             n  == Lower(Strip(nm.v))
         IN IF n = key THEN Get(ws, "slug")
            ELSE FirstMatch(workspaces, key, k + 1)

\* mutant of get_workspace_slug: the given name is compared as written
get_workspace_slug_exact(resp, preferred) ==
    LET got == get_workspaces(resp) IN
    IF got.exc # "none" THEN got
    ELSE LET workspaces == got.val.v IN
         IF Len(workspaces) = 0 THEN Return(Null)
         ELSE IF ~Truthy(preferred) THEN Return(Get(workspaces[1], "slug"))
         ELSE Return(FirstMatch(workspaces, Strip(preferred.v), 1))

\* get_workspace_slug; preferred is a JSON string or Null (Python None)
get_workspace_slug(resp, preferred) ==
    LET got == get_workspaces(resp) IN
    IF got.exc # "none" THEN got
    ELSE LET workspaces == got.val.v IN
         IF Len(workspaces) = 0 THEN Return(Null)
         ELSE IF ~Truthy(preferred) THEN Return(Get(workspaces[1], "slug"))
         ELSE Return(FirstMatch(workspaces, Lower(Strip(preferred.v)), 1))

\* mutant of create_workspace: the returned list is tried before the nested
\* workspace object
create_workspace_list_first(resp) ==
    IF RaisesRequestException(resp) THEN Raise("RequestException")
    ELSE LET data == resp.body
             workspaces == Or(Get(data, "workspaces"), EmptyLst)
             listed == IF Truthy(workspaces)
                       THEN LET w == workspaces.v[1]
                            IN IF w.t = "obj" THEN Get(w, "slug") ELSE w
                       ELSE Null
         IN Return(Or(Get(data, "slug"),
                      Or(listed, Get(Or(Get(data, "workspace"), EmptyObj), "slug"))))

\* create_workspace, given the response of the create POST
create_workspace(resp) ==
    IF RaisesRequestException(resp) THEN Raise("RequestException")
    ELSE LET data == resp.body
             slug == Or(Get(data, "slug"),
                        Get(Or(Get(data, "workspace"), EmptyObj), "slug"))
             workspaces == Or(Get(data, "workspaces"), EmptyLst)
         IN IF Truthy(slug) THEN Return(slug)
            ELSE IF Truthy(workspaces)
                 THEN LET w == workspaces.v[1]
                      IN Return(IF w.t = "obj" THEN Get(w, "slug") ELSE w)
                 ELSE Return(Null)

-----------------------------------------------------------------------------
(* thread lifecycle *)

\* create_thread (both scripts): any RequestException becomes None
create_thread(resp) ==
    IF RaisesRequestException(resp) THEN Null
    ELSE LET thread == Or(Get(resp.body, "thread"), EmptyObj)
         IN Get(thread, "slug")

-----------------------------------------------------------------------------
(* document upload *)

\* upload_document: raises on a failed request, else returns resp.json()
upload_document(resp) ==
    IF RaisesRequestException(resp) THEN Raise("RequestException")
    ELSE Return(resp.body)

-----------------------------------------------------------------------------
(* threatfox_daily_report.py: question strategies *)

TEMPLATE_QUESTIONS ==
    << "What are the most critical IOCs in this dataset and why?",
       "Which malware families appear most often and what should we prioritize for blocking?",
       "Summarize key recommendations for our SOC based on this ThreatFox pull." >>

SUMMARY_QUESTION == "Summarize the key findings in no more than 3 bullet points."

\* mutant of _template_questions: the mission is ignored
_template_questions_fixed(mission) == TEMPLATE_QUESTIONS

\* _template_questions; mission is a JSON string or Null (Python None)
_template_questions(mission) ==
    IF ~Truthy(mission) \/ Strip(mission.v) = ""
    THEN TEMPLATE_QUESTIONS
    ELSE LET m == Strip(mission.v) IN
         << "What are the most critical IOCs in this dataset relevant to " \o m \o " and why?",
            "Which indicators or malware families here relate to " \o m
                \o ", and what should we prioritize for blocking?",
            "Summarize key recommendations for our SOC regarding " \o m
                \o " based on this ThreatFox pull." >>

\* str.splitlines() on "\n", "\r" and "\r\n"
RECURSIVE SplitFrom(_, _, _, _)
SplitFrom(s, i, cur, acc) ==
    IF i > Len(s) THEN (IF cur = "" THEN acc ELSE Append(acc, cur))
    ELSE IF Ch(s, i) = "\r" /\ i < Len(s) /\ Ch(s, i + 1) = "\n"
         THEN SplitFrom(s, i + 2, "", Append(acc, cur))
    ELSE IF Ch(s, i) \in {"\n", "\r"}
         THEN SplitFrom(s, i + 1, "", Append(acc, cur))
    ELSE SplitFrom(s, i + 1, cur \o Ch(s, i), acc)

SplitLines(s) == SplitFrom(s, 1, "", <<>>)

Digits == {"0", "1", "2", "3", "4", "5", "6", "7", "8", "9"}

\* the character class [.)\-\s]
MarkerSeps == {".", ")", "-"} \cup Whitespace

\* length of the longest run of characters of set cs in s starting at position i
RECURSIVE RunLen(_, _, _)
RunLen(s, i, cs) ==
    IF i <= Len(s) /\ Ch(s, i) \in cs THEN 1 + RunLen(s, i + 1, cs) ELSE 0

\* mutant of MarkerMatch: whitespace is no separator, the pattern being
\* ^\d+[.)\-]+\s*(.+)$
MarkerMatchNoSpace(line) ==
    LET d == RunLen(line, 1, Digits)
        p == RunLen(line, d + 1, {".", ")", "-"})
        w == RunLen(line, d + p + 1, Whitespace)
    IN IF d = 0 \/ p = 0 THEN Null
       ELSE IF d + p + w < Len(line)
            THEN Str(SubSeq(line, d + p + w + 1, Len(line)))
       ELSE IF d + p < Len(line) THEN Str(SubSeq(line, d + p + 1, Len(line)))
       ELSE IF p >= 2 THEN Str(Ch(line, Len(line)))
       ELSE Null

\* re.match(r"^\d+[.)\-\s]+\s*(.+)$", line): the digits are maximal (a shorter
\* run would be followed by a digit, which is no separator); the separators
\* give back their last character when nothing else is left for (.+).
MarkerMatch(line) ==
    LET d == RunLen(line, 1, Digits)
        p == RunLen(line, d + 1, MarkerSeps)
    IN IF d = 0 \/ p = 0 THEN Null
       ELSE IF d + p < Len(line) THEN Str(SubSeq(line, d + p + 1, Len(line)))
       ELSE IF p >= 2 THEN Str(Ch(line, Len(line)))
       ELSE Null

\* mutant of ParseLoop: a line that is empty once trimmed is not skipped
RECURSIVE ParseLoopKeepsBlank(_, _, _)
ParseLoopKeepsBlank(lines, k, qs) ==
    IF k > Len(lines)
    THEN (IF Len(qs) >= 3 THEN Lst(SubSeq(qs, 1, 3)) ELSE Null)
    ELSE LET line == Strip(lines[k])
             m  == IF line = "" THEN Null ELSE MarkerMatch(line)
             q2 == Append(qs, IF m.t = "str" THEN Strip(m.v) ELSE line)
         IN IF Len(q2) >= 3 THEN Lst(SubSeq(q2, 1, 3))
            ELSE ParseLoopKeepsBlank(lines, k + 1, q2)

\* the for loop of _parse_three_questions
RECURSIVE ParseLoop(_, _, _)
ParseLoop(lines, k, qs) ==
    IF k > Len(lines)
    THEN (IF Len(qs) >= 3 THEN Lst(SubSeq(qs, 1, 3)) ELSE Null)
    ELSE LET line == Strip(lines[k]) IN
         IF line = "" THEN ParseLoop(lines, k + 1, qs)
         ELSE LET m  == MarkerMatch(line)
                  q2 == Append(qs, IF m.t = "str" THEN Strip(m.v) ELSE line)
              IN IF Len(q2) >= 3 THEN Lst(SubSeq(q2, 1, 3))
                 ELSE ParseLoop(lines, k + 1, q2)

\* _parse_three_questions: a list of 3 strings, or Null (None)
_parse_three_questions(text) == ParseLoop(SplitLines(Strip(text)), 1, <<>>)

\* generate_questions_via_anythingllm_chat_completions, given the response of
\* POST /api/v1/openai/chat/completions.  Only RequestException is caught.
generate_questions(resp) ==
    IF RaisesRequestException(resp) THEN Return(Null)
    ELSE LET data    == resp.body
             choices == Or(Get(data, "choices"), Lst(<<EmptyObj>>))
             message == GetD(choices.v[1], "message", EmptyObj)
         IN IF message.t # "obj" THEN Raise("AttributeError")
            ELSE LET content == Or(Get(message, "content"), Str("")) IN
                 IF ~Truthy(content) \/ Strip(content.v) = "" THEN Return(Null)
                 ELSE Return(_parse_three_questions(content.v))

\* mutant of SelectQuestions: no fallback to the templates
SelectQuestionsNoFallback(use_llm_questions, q, mission) ==
    LET fromLlm == IF use_llm_questions /\ Truthy(q) /\ Len(q.v) = 3
                   THEN q.v ELSE <<>>
    IN fromLlm \o <<SUMMARY_QUESTION>>

\* main, step 6: the selection among the strategies and the final list
SelectQuestions(use_llm_questions, q, mission) ==
    LET fromLlm == IF use_llm_questions /\ Truthy(q) /\ Len(q.v) = 3
                   THEN q.v ELSE <<>>
        chosen  == IF Len(fromLlm) = 0 THEN _template_questions(mission)
                   ELSE fromLlm
    IN SubSeq(chosen, 1, IF Len(chosen) < 3 THEN Len(chosen) ELSE 3)
           \o <<SUMMARY_QUESTION>>

-----------------------------------------------------------------------------
(* conversation driver *)

\* json.loads on the event texts the remote sends; any other text is not JSON
JsonTexts ==
    { <<"{\"textResponse\": \"Hel\"}", Obj([textResponse |-> Str("Hel")])>>,
      <<"{\"textResponse\": \"\", \"text\": \"lo\"}",
        Obj([textResponse |-> Str(""), text |-> Str("lo")])>>,
      <<"{\"delta\": \"!\"}", Obj([delta |-> Str("!")])>>,
      <<"{\"close\": true}", Obj([close |-> Bool(TRUE)])>>,
      <<"{\"textResponse\": \"A\", \"text\": \"B\", \"delta\": \"C\"}",
        Obj([textResponse |-> Str("A"), text |-> Str("B"), delta |-> Str("C")])>>,
      <<"{\"text\": \"B\", \"delta\": \"C\"}",
        Obj([text |-> Str("B"), delta |-> Str("C")])>>,
      <<"{\"textResponse\": null, \"text\": [], \"delta\": \"C\"}",
        Obj([textResponse |-> Null, text |-> EmptyLst, delta |-> Str("C")])>>,
      <<"{\"textResponse\": 5, \"text\": \"B\"}",
        Obj([textResponse |-> Num(5), text |-> Str("B")])>>,
      <<"null", Null>>,
      <<"[\"Hel\"]", Lst(<<Str("Hel")>>)>> }

json_loads(raw) ==
    IF \E p \in JsonTexts : p[1] = raw
    THEN Return((CHOOSE p \in JsonTexts : p[1] = raw)[2])
    ELSE Raise("JSONDecodeError")

\* str.startswith
StartsWith(s, prefix) ==
    Len(s) >= Len(prefix) /\ SubSeq(s, 1, Len(prefix)) = prefix

\* mutant of StreamLoop: the field text is looked at before textResponse
RECURSIVE StreamLoopTextFirst(_, _, _, _)
StreamLoopTextFirst(lines, k, chunks, last_event) ==
    IF k > Len(lines) THEN Return([text |-> chunks, last_event |-> last_event])
    ELSE LET line == lines[k]
             raw0 == Strip(line)
             raw  == IF StartsWith(raw0, "data: ")
                     THEN SubSeq(raw0, 7, Len(raw0)) ELSE raw0
         IN IF line = "" \/ raw \in {"[DONE]", ""}
            THEN StreamLoopTextFirst(lines, k + 1, chunks, last_event)
            ELSE LET ev == json_loads(raw) IN
                 IF ev.exc # "none"
                 THEN StreamLoopTextFirst(lines, k + 1, chunks, last_event)
                 ELSE IF ev.val.t # "obj" THEN Raise("AttributeError")
                 ELSE LET event == ev.val
                          part  == Or(Get(event, "text"),
                                      Or(Get(event, "textResponse"),
                                         Or(Get(event, "delta"), Str(""))))
                      IN StreamLoopTextFirst(lines, k + 1,
                                    IF part.t = "str" /\ part.v # ""
                                    THEN chunks \o part.v ELSE chunks,
                                    event)

\* the body of the for loop over resp.iter_lines() in chat_stream; event.get
\* raises AttributeError when the line is JSON but not an object
RECURSIVE StreamLoop(_, _, _, _)
StreamLoop(lines, k, chunks, last_event) ==
    IF k > Len(lines) THEN Return([text |-> chunks, last_event |-> last_event])
    ELSE LET line == lines[k]
             raw0 == Strip(line)
             raw  == IF StartsWith(raw0, "data: ")
                     THEN SubSeq(raw0, 7, Len(raw0)) ELSE raw0
         IN IF line = "" \/ raw \in {"[DONE]", ""}
            THEN StreamLoop(lines, k + 1, chunks, last_event)
            ELSE LET ev == json_loads(raw) IN
                 IF ev.exc # "none"
                 THEN StreamLoop(lines, k + 1, chunks, last_event)
                 ELSE IF ev.val.t # "obj" THEN Raise("AttributeError")
                 ELSE LET event == ev.val
                          part  == Or(Get(event, "textResponse"),
                                      Or(Get(event, "text"),
                                         Or(Get(event, "delta"), Str(""))))
                      IN StreamLoop(lines, k + 1,
                                    IF part.t = "str" /\ part.v # ""
                                    THEN chunks \o part.v ELSE chunks,
                                    event)

\* chat_stream of threatfox_daily_report.py: the full assistant text
chat_stream(resp) ==
    IF RaisesRequestException(resp) THEN Raise("RequestException")
    ELSE LET r == StreamLoop(resp.body, 1, "", Null)
         IN IF r.exc # "none" THEN r ELSE Return(r.val.text)

\* chat_stream of anythingllm_chat.py: (text, last_event)
chat_stream_with_event(resp) ==
    IF RaisesRequestException(resp) THEN Raise("RequestException")
    ELSE StreamLoop(resp.body, 1, "", Null)

-----------------------------------------------------------------------------
(* threatfox_daily_report.py: report builder *)

SAMPLE_IOC_ROWS == 15
TOP_NAMES == 10

\* datetime.utcnow().strftime('%Y-%m-%d %H:%M:%S')
UtcNow == "2026-01-28 00:45:30"

\* a value inside an f-string: str(x)
FStr(x) ==
    CASE x.t = "str"  -> x.v
      [] x.t = "null" -> "None"
      [] x.t = "bool" -> IF x.v THEN "True" ELSE "False"
      [] x.t = "num"  -> ToString(x.v)
      [] OTHER        -> "<object>"

\* mutant of EscapePipes: the value is rendered as it is
EscapePipesNot(s) == s

\* s.replace("|", "\\|")
RECURSIVE EscapePipes(_)
EscapePipes(s) ==
    IF s = "" THEN ""
    ELSE (IF Ch(s, 1) = "|" THEN "\\|" ELSE Ch(s, 1))
             \o EscapePipes(SubSeq(s, 2, Len(s)))

\* the keys of a Counter fed with names, in the order first seen
RECURSIVE FirstSeen(_, _)
FirstSeen(names, acc) ==
    IF names = <<>> THEN acc
    ELSE FirstSeen(Tail(names),
                   IF \E i \in DOMAIN acc : acc[i] = Head(names) THEN acc
                   ELSE Append(acc, Head(names)))

\* Counter[name]
CountOf(names, name) == Cardinality({i \in DOMAIN names : names[i] = name})

\* x put into keys, which are in descending order of count, behind every key
\* that counts at least as much
RECURSIVE InsertByCount(_, _, _)
InsertByCount(keys, x, names) ==
    IF keys = <<>> THEN <<x>>
    ELSE IF CountOf(names, Head(keys)) >= CountOf(names, x)
         THEN <<Head(keys)>> \o InsertByCount(Tail(keys), x, names)
         ELSE <<x>> \o keys

RECURSIVE SortByCount(_, _, _)
SortByCount(keys, sorted, names) ==
    IF keys = <<>> THEN sorted
    ELSE SortByCount(Tail(keys), InsertByCount(sorted, Head(keys), names), names)

\* Counter(names).most_common(n): descending count, ties in the order first
\* seen; each entry rendered as f"- {name}: {n}"
most_common(names, n) ==
    LET sorted == SortByCount(FirstSeen(names, <<>>), <<>>, names)
        top    == SubSeq(sorted, 1, IF Len(sorted) < n THEN Len(sorted) ELSE n)
    IN [k \in 1..Len(top) |-> "- " \o top[k] \o ": " \o ToString(CountOf(names, top[k]))]

\* mutant of SampleRow: a missing malware family or threat type is shown as
\* "Unknown" in the table too
SampleRowUnknown(row) ==
    LET ioc   == EscapePipes(Or(Get(row, "ioc"), Str("")).v)
        mal   == EscapePipes(Or(Get(row, "malware_printable"),
                                Or(Get(row, "malware"), Str("Unknown"))).v)
        tt    == EscapePipes(Or(Get(row, "threat_type"), Str("Unknown")).v)
        first == EscapePipes(Or(Get(row, "first_seen"), Str("")).v)
        conf  == GetD(row, "confidence_level", Str(""))
    IN "| " \o ioc \o " | " \o mal \o " | " \o tt \o " | " \o first
            \o " | " \o FStr(conf) \o " |"

\* the row of the sample table for one record
SampleRow(row) ==
    LET ioc   == EscapePipes(Or(Get(row, "ioc"), Str("")).v)
        mal   == EscapePipes(Or(Get(row, "malware_printable"),
                                Or(Get(row, "malware"), Str(""))).v)
        tt    == EscapePipes(Or(Get(row, "threat_type"), Str("")).v)
        first == EscapePipes(Or(Get(row, "first_seen"), Str("")).v)
        conf  == GetD(row, "confidence_level", Str(""))
    IN "| " \o ioc \o " | " \o mal \o " | " \o tt \o " | " \o first
            \o " | " \o FStr(conf) \o " |"

\* build_markdown_report(result, days=1): the lines that are joined by "\n"
\* (the dash of the title is an en dash in the source)
build_markdown_report(result) ==
    LET status == GetD(result, "query_status", Str("unknown"))
        data   == Or(Get(result, "data"), EmptyLst).v
        count  == Or(GetD(result, "count", Num(0)), Num(Len(data)))
        mps    == [k \in DOMAIN data |->
                     Or(Get(data[k], "malware_printable"),
                        Or(Get(data[k], "malware"), Str("Unknown"))).v]
        tts    == [k \in DOMAIN data |->
                     Or(Get(data[k], "threat_type"),
                        Or(Get(data[k], "threat_type_desc"), Str("Unknown"))).v]
        shown  == SubSeq(data, 1, IF Len(data) < SAMPLE_IOC_ROWS THEN Len(data)
                                  ELSE SAMPLE_IOC_ROWS)
    IN << "# ThreatFox IOCs - last 1 day", "",
          "**Generated:** " \o UtcNow \o " UTC", "",
          "## Summary", "",
          "- **Query status:** " \o FStr(status),
          "- **Total indicators:** " \o FStr(count),
          "" >>
       \o (IF data # <<>>
           THEN << "### Top malware families", "" >>
                   \o most_common(mps, TOP_NAMES) \o << "" >>
                   \o << "### Top threat types", "" >>
                   \o most_common(tts, TOP_NAMES) \o << "" >>
           ELSE <<>>)
       \o << "## Sample IOCs", "",
             "| IOC | Malware | Threat type | First seen | Confidence |",
             "|-----|---------|-------------|------------|------------|" >>
       \o [k \in DOMAIN shown |-> SampleRow(shown[k])]
       \o << "",
             "The full dataset is available in the attached JSON document in this workspace." >>

-----------------------------------------------------------------------------
(* The remote services: the responses each endpoint may give *)

IocFull ==
    Obj([ioc |-> Str("1.2.3.4:443"), malware_printable |-> Str("Cobalt Strike"),
         threat_type |-> Str("botnet_cc"),
         first_seen |-> Str("2026-01-27 10:00:00 UTC"),
         confidence_level |-> Num(75)])
IocSparse == Obj([ioc |-> Str("evil.example/a|b")])

FeedResponses ==
    { NetError,
      Http(500, EmptyObj),
      Http(200, Obj([query_status |-> Str("ok"), count |-> Num(5),
                     data |-> Lst(<<IocFull, IocSparse>>)])),
      Http(200, Obj([query_status |-> Str("ok"), data |-> EmptyLst])),
      Http(200, Obj([query_status |-> Str("ok")])),
      Http(200, Obj([query_status |-> Str("ok"), data |-> Null])),
      Http(200, Obj([query_status |-> Str("no_result"),
                     data |-> Str("Your search did not yield any results")])),
      Http(200, Obj([query_status |-> Null])),
      Http(200, EmptyObj) }

WsEntry(name, slug) == Obj([name |-> Str(name), slug |-> Str(slug)])

ListResponses ==
    { NetError,
      Http(500, EmptyObj),
      Http(200, EmptyObj),
      Http(200, Obj([workspaces |-> EmptyLst])),
      Http(200, Obj([workspaces |->
          Lst(<<WsEntry("Other", "other"),
                Obj([name |-> Null, slug |-> Str("anon")]),
                WsEntry("threatfox daily ", "threatfox-daily"),
                WsEntry(" MY WS", "my-ws")>>)])),
      Http(200, Obj([workspaces |->
          Lst(<<Obj([name |-> Str("Unnamed")]),
                Obj([name |-> Str("ThreatFox Daily")]),
                Obj([name |-> Str("My WS"), slug |-> Null])>>)])) }

CreateResponses ==
    { NetError,
      Http(500, EmptyObj),
      Http(200, Obj([slug |-> Str("top"),
                     workspace |-> Obj([slug |-> Str("nested")]),
                     workspaces |-> Lst(<<Obj([slug |-> Str("listed")])>>)])),
      Http(200, Obj([slug |-> Null,
                     workspace |-> Obj([slug |-> Str("nested")]),
                     workspaces |-> Lst(<<Obj([slug |-> Str("listed")])>>)])),
      Http(200, Obj([workspace |-> Null,
                     workspaces |-> Lst(<<Obj([slug |-> Str("listed")]),
                                          Obj([slug |-> Str("second")])>>)])),
      Http(200, Obj([workspaces |-> Lst(<<Str("listed")>>)])),
      Http(200, Obj([workspace |-> Obj([id |-> Num(3)]),
                     workspaces |-> Lst(<<Obj([id |-> Num(3)])>>)])),
      Http(200, Obj([message |-> Str("created")])),
      Http(200, EmptyObj) }

ThreadResponses ==
    { NetError,
      Http(500, EmptyObj),
      Http(200, Obj([thread |-> Obj([slug |-> Str("remote-thread")])])),
      Http(200, Obj([thread |-> Obj([slug |-> Str("")])])),
      Http(200, Obj([thread |-> Obj([id |-> Num(7)])])),
      Http(200, Obj([thread |-> Null])),
      Http(200, EmptyObj) }

UploadResponses ==
    { NetError,
      Http(500, EmptyObj),
      Http(200, Obj([success |-> Bool(TRUE)])) }

Completion(message) == Http(200, Obj([choices |-> Lst(<<message>>)]))

CompletionResponses ==
    { NetError,
      Http(500, EmptyObj),
      Completion(Obj([message |-> Obj([content |->
          Str("1. Question A\n2) Question B\n3 - Question C\n")])])),
      Completion(Obj([message |-> Obj([content |->
          Str("Here you go:\n\n 1. Question A\r\n2) Question B\n3 - Question C\n4. D")])])),
      Completion(Obj([message |-> Obj([content |-> Str("1. Only one\n\n2. two")])])),
      Completion(Obj([message |-> Obj([content |-> Str(" \n ")])])),
      Completion(Obj([message |-> Obj([content |-> Null])])),
      Completion(Obj([message |-> EmptyObj])),
      Completion(Obj([index |-> Num(0)])),
      Completion(Obj([message |-> Null])),
      Http(200, Obj([choices |-> EmptyLst])),
      Http(200, EmptyObj) }

ChatResponses ==
    { NetError,
      Http(400, <<>>),
      Http(404, <<>>),
      Http(500, <<>>),
      Http(200, <<>>),
      Http(200, << "data: {\"textResponse\": \"Hel\"}", "",
                   "data: {\"textResponse\": \"\", \"text\": \"lo\"}",
                   "data: {broken", "  {\"delta\": \"!\"}  ", "data: [DONE]" >>),
      Http(200, << "data: {\"close\": true}" >>) }

\* the wall clock at thread creation (strftime("%Y-%m-%d-%H-%M-%S")) and uuid4()
Clock == { "2026-01-28-00-45-30" }
Uuids == { "1a2b3c4d-0000-4000-8000-000000000000" }

-----------------------------------------------------------------------------
(* Initial states: the environment and command line the script is started in *)

Absent == [set |-> FALSE, v |-> ""]
Val(s) == [set |-> TRUE, v |-> s]

\* the environment in which exactly the variables with a value are set
EnvOf(a) == [n \in {m \in DOMAIN a : a[m].set} |-> a[n].v]

FeedKeys == { Absent, Val(""), Val("  "), Val("your-auth-key-here"), Val(" tf-key ") }
ApiKeys  == { Absent, Val(""), Val("your-api-key-here"), Val(" your-api-key-here "),
              Val("llm-key") }
LlmFlags == { Absent, Val(" Yes "), Val("on") }
Missions == { Absent, Val("  "), Val(" ransomware triage ") }

DailyEnvs ==
    { EnvOf([THREATFOX_AUTH_KEY |-> k, ANYTHINGLLM_API_KEY |-> a,
             USE_LLM_QUESTIONS |-> u, ANYTHINGLLM_THREATFOX_WORKSPACE |-> w]) :
        k \in FeedKeys, a \in ApiKeys, u \in LlmFlags,
        w \in { Absent, Val(" My WS ") } }

IocEnvs == { EnvOf([THREATFOX_AUTH_KEY |-> k]) : k \in FeedKeys }

ChatEnvs ==
    { EnvOf([ANYTHINGLLM_API_KEY |-> a, ANYTHINGLLM_WORKSPACE_NAME |-> w]) :
        a \in ApiKeys, w \in { Absent, Val("  "), Val("my ws") } }

Init ==
    /\ script \in {"daily", "ioc", "chat"}
    /\ env \in (CASE script = "daily" -> DailyEnvs
                  [] script = "ioc"   -> IocEnvs
                  [] script = "chat"  -> ChatEnvs)
    /\ args \in (IF script = "daily"
                 THEN { EnvOf([mission |-> m]) : m \in Missions }
                 ELSE { EnvOf([mission |-> Absent]) })
    /\ pc = "start"
    /\ exitCode = -1
    /\ crashed = FALSE
    /\ log = <<>>
    /\ normalized = Null
    /\ ws_slug = Null
    /\ thread_slug = Null
    /\ created_slug = Null
    /\ questions = <<>>
    /\ turn = 0
    /\ failedTurns = {}
    /\ tmpdir = FALSE
    /\ printed = Null

-----------------------------------------------------------------------------
(* Process exit *)

\* sys.exit(code): the locals named in keep are left as they are
Exit(code) == pc' = "exit" /\ exitCode' = code /\ crashed' = FALSE

\* an exception no handler catches: traceback, exit status 1
Crash == pc' = "exit" /\ exitCode' = 1 /\ crashed' = TRUE

\* main returns: exit status 0
Finish == pc' = "done" /\ exitCode' = 0 /\ crashed' = FALSE

Goto(label) == pc' = label /\ exitCode' = exitCode /\ crashed' = crashed

Request(r) == log' = Append(log, r)

-----------------------------------------------------------------------------
(* threatfox_daily_report.py: main *)

DEFAULT_THREATFOX_WORKSPACE == "ThreatFox Daily"
EMBED_WAIT_SECONDS == 5

\* main: mission = (args.mission or "").strip() or None
mission ==
    LET given == IF "mission" \in DOMAIN args THEN args["mission"] ELSE ""
    IN Or(Str(Strip(given)), Null)

\* main: workspace_name
workspace_name ==
    Or(Str(Strip(Getenv("ANYTHINGLLM_THREATFOX_WORKSPACE", ""))),
       Str(DEFAULT_THREATFOX_WORKSPACE)).v

\* main: use_llm_questions
use_llm_questions ==
    Lower(Strip(Getenv("USE_LLM_QUESTIONS", ""))) \in {"1", "true", "yes"}

\* mutant of ValidCredential: the placeholder is not rejected
ValidCredentialNonEmpty(name, placeholder) ==
    Strip(Getenv(name, "")) # ""

\* main, step 1: the two credential checks
ValidCredential(name, placeholder) ==
    LET key == Strip(Getenv(name, ""))
    IN key # "" /\ key # placeholder

D_Validate ==
    /\ script = "daily" /\ pc = "start"
    /\ IF /\ ValidCredential("THREATFOX_AUTH_KEY", "your-auth-key-here")
          /\ ValidCredential("ANYTHINGLLM_API_KEY", "your-api-key-here")
       THEN Goto("fetch")
       ELSE Exit(1)
    /\ UNCHANGED <<script, env, args, log, normalized, ws_slug, thread_slug,
                   created_slug, questions, turn, failedTurns, tmpdir, printed>>

\* threatfox_ioc.py, get_recent_iocs: the credential check before the request
\* (auth_key = os.getenv("THREATFOX_AUTH_KEY"); if not auth_key: raise ValueError)
FeedKeyAccepted ==
    IsSet("THREATFOX_AUTH_KEY") /\ env["THREATFOX_AUTH_KEY"] # ""

\* get_recent_iocs after the check: the request and its result
get_recent_iocs(resp) ==
    IF RaisesRequestException(resp) THEN Raise("RequestException")
    ELSE Return(resp.body)

\* the log entry of the feed request: how it ended, the query_status and the
\* count received
FeedRequest(resp) ==
    [op |-> "feed", res |-> Outcome(resp),
     query_status |-> IF RaisesRequestException(resp) THEN Null
                      ELSE Get(resp.body, "query_status"),
     reported |-> IF RaisesRequestException(resp) THEN Null
                  ELSE Get(resp.body, "count")]

\* mutant of StatusOk: a response without query_status counts as "ok"
StatusOkDefaultOk(result) ==
    LET status == GetD(result, "query_status", Str("ok"))
    IN status.t = "str" /\ status.v = "ok"

\* main, step 2: result.get("query_status", "unknown") == "ok"
StatusOk(result) ==
    LET status == GetD(result, "query_status", Str("unknown"))
    IN status.t = "str" /\ status.v = "ok"

\* mutant of Normalize: the count is the one the feed reported
NormalizeFeedCount(result) ==
    LET data == Or(Get(result, "data"), EmptyLst)
    IN Obj([query_status |-> GetD(result, "query_status", Str("unknown")),
            count |-> GetD(result, "count", Num(Len(data.v))), data |-> data])

\* main, step 2: normalized = {"query_status": status, "count": count, "data": data}
Normalize(result) ==
    LET data == Or(Get(result, "data"), EmptyLst)
    IN Obj([query_status |-> GetD(result, "query_status", Str("unknown")),
            count |-> Num(Len(data.v)), data |-> data])

D_Fetch ==
    /\ script = "daily" /\ pc = "fetch"
    /\ IF ~FeedKeyAccepted
       THEN Exit(1) /\ UNCHANGED <<log, normalized>>
       ELSE \E resp \in FeedResponses :
              /\ Request(FeedRequest(resp))
              /\ LET r == get_recent_iocs(resp) IN
                 IF r.exc # "none" THEN Exit(1) /\ UNCHANGED normalized
                 ELSE IF ~StatusOk(r.val) THEN Exit(1) /\ UNCHANGED normalized
                 ELSE Goto("ws_list") /\ normalized' = Normalize(r.val)
    /\ UNCHANGED <<script, env, args, ws_slug, thread_slug, created_slug,
                   questions, turn, failedTurns, tmpdir, printed>>

\* the log entry of the list request: how it ended and the workspaces that
\* get_workspaces returned
ListRequest(resp) ==
    [op |-> "ws_list", res |-> Outcome(resp),
     listed |-> IF get_workspaces(resp).exc = "none"
                THEN get_workspaces(resp).val ELSE EmptyLst]

\* main, step 3: resolve the workspace by name
D_ListWorkspaces ==
    /\ script = "daily" /\ pc = "ws_list"
    /\ \E resp \in ListResponses :
         /\ Request(ListRequest(resp))
         /\ LET r == get_workspace_slug(resp, Str(workspace_name)) IN
            IF r.exc # "none" THEN Exit(1) /\ UNCHANGED ws_slug
            ELSE /\ ws_slug' = r.val
                 /\ IF Truthy(r.val) THEN Goto("thread") ELSE Goto("ws_create")
    /\ UNCHANGED <<script, env, args, normalized, thread_slug, created_slug,
                   questions, turn, failedTurns, tmpdir, printed>>

\* main, step 3: create the workspace when none was resolved
\* the create POST as logged: the name sent, the outcome and, when the
\* request succeeded, the JSON body received
CreateRequest(name, resp) ==
    [op |-> "ws_create", name |-> name, res |-> Outcome(resp),
     returned |-> IF Outcome(resp) = "ok" THEN resp.body ELSE Null]

\* mutant of D_CreateWorkspace: a failed create request is not fatal
D_CreateWorkspaceSoft ==
    /\ script = "daily" /\ pc = "ws_create"
    /\ \E resp \in CreateResponses :
         /\ Request(CreateRequest(workspace_name, resp))
         /\ LET r == create_workspace(resp) IN
            IF r.exc # "none" THEN Goto("thread") /\ UNCHANGED ws_slug
            ELSE /\ ws_slug' = r.val
                 /\ IF Truthy(r.val) THEN Goto("thread") ELSE Exit(1)
    /\ UNCHANGED <<script, env, args, normalized, thread_slug, created_slug,
                   questions, turn, failedTurns, tmpdir, printed>>

D_CreateWorkspace ==
    /\ script = "daily" /\ pc = "ws_create"
    /\ \E resp \in CreateResponses :
         /\ Request(CreateRequest(workspace_name, resp))
         /\ LET r == create_workspace(resp) IN
            IF r.exc # "none" THEN Exit(1) /\ UNCHANGED ws_slug
            ELSE /\ ws_slug' = r.val
                 /\ IF Truthy(r.val) THEN Goto("thread") ELSE Exit(1)
    /\ UNCHANGED <<script, env, args, normalized, thread_slug, created_slug,
                   questions, turn, failedTurns, tmpdir, printed>>

\* mutant of D_CreateThread: the slug the server returned is not taken over
D_CreateThreadKeepsLocal ==
    /\ script = "daily" /\ pc = "thread"
    /\ \E now \in Clock, u \in Uuids, resp \in ThreadResponses :
         LET slug    == now \o "-" \o SubSeq(u, 1, 8)
             created == create_thread(resp)
         IN /\ Request([op |-> "thread_create", ws |-> ws_slug, slug |-> slug,
                        res |-> Outcome(resp), returned |-> created])
            /\ created_slug' = created
            /\ thread_slug' = Str(slug)
    /\ Goto("upload_json")
    /\ UNCHANGED <<script, env, args, normalized, ws_slug, questions, turn,
                   failedTurns, tmpdir, printed>>

\* mutant of D_CreateThread: a thread that could not be created ends the run
D_CreateThreadFatal ==
    /\ script = "daily" /\ pc = "thread"
    /\ \E now \in Clock, u \in Uuids, resp \in ThreadResponses :
         LET slug    == now \o "-" \o SubSeq(u, 1, 8)
             created == create_thread(resp)
         IN /\ Request([op |-> "thread_create", ws |-> ws_slug, slug |-> slug,
                        res |-> Outcome(resp), returned |-> created])
            /\ created_slug' = created
            /\ thread_slug' = IF Truthy(created) THEN created ELSE Str(slug)
            /\ IF Truthy(created) THEN Goto("upload_json") ELSE Exit(1)
    /\ UNCHANGED <<script, env, args, normalized, ws_slug, questions, turn,
                   failedTurns, tmpdir, printed>>

\* main, step 3: the thread, with the locally generated slug as fallback
D_CreateThread ==
    /\ script = "daily" /\ pc = "thread"
    /\ \E now \in Clock, u \in Uuids, resp \in ThreadResponses :
         LET slug    == now \o "-" \o SubSeq(u, 1, 8)
             created == create_thread(resp)
         IN /\ Request([op |-> "thread_create", ws |-> ws_slug, slug |-> slug,
                        res |-> Outcome(resp), returned |-> created])
            /\ created_slug' = created
            /\ thread_slug' = IF Truthy(created) THEN created ELSE Str(slug)
    /\ Goto("upload_json")
    /\ UNCHANGED <<script, env, args, normalized, ws_slug, questions, turn,
                   failedTurns, tmpdir, printed>>

\* mutant of D_UploadJson: a failed upload is only reported
D_UploadJsonSoft ==
    /\ script = "daily" /\ pc = "upload_json"
    /\ \E resp \in UploadResponses :
         Request([op |-> "upload", file |-> "threatfox_iocs.json",
                  ws |-> ws_slug, res |-> Outcome(resp),
                  content |-> normalized])
    /\ Goto("upload_md") /\ tmpdir' = TRUE
    /\ UNCHANGED <<script, env, args, normalized, ws_slug, thread_slug,
                   created_slug, questions, turn, failedTurns, printed>>

\* main, step 4: the temporary directory is made, both files are written
\* (json.dumps(normalized) and the markdown report built from normalized), and
\* the JSON document is uploaded; sys.exit leaves the with block, which
\* removes the directory
D_UploadJson ==
    /\ script = "daily" /\ pc = "upload_json"
    /\ \E resp \in UploadResponses :
         /\ Request([op |-> "upload", file |-> "threatfox_iocs.json",
                     ws |-> ws_slug, res |-> Outcome(resp),
                     content |-> normalized])
         /\ IF upload_document(resp).exc # "none"
            THEN Exit(1) /\ tmpdir' = FALSE
            ELSE Goto("upload_md") /\ tmpdir' = TRUE
    /\ UNCHANGED <<script, env, args, normalized, ws_slug, thread_slug,
                   created_slug, questions, turn, failedTurns, printed>>

\* mutant of D_UploadMarkdown: os._exit in place of sys.exit, so the with
\* block is not unwound when the upload fails
D_UploadMarkdownHardExit ==
    /\ script = "daily" /\ pc = "upload_md"
    /\ \E resp \in UploadResponses :
         /\ Request([op |-> "upload", file |-> "threatfox_report.md",
                     ws |-> ws_slug, res |-> Outcome(resp),
                     content |-> build_markdown_report(normalized)])
         /\ IF upload_document(resp).exc # "none"
            THEN Exit(1) /\ tmpdir' = tmpdir
            ELSE Goto("sleep") /\ tmpdir' = FALSE
    /\ UNCHANGED <<script, env, args, normalized, ws_slug, thread_slug,
                   created_slug, questions, turn, failedTurns, printed>>

\* main, step 4: the markdown document; the with block ends either way
D_UploadMarkdown ==
    /\ script = "daily" /\ pc = "upload_md"
    /\ \E resp \in UploadResponses :
         /\ Request([op |-> "upload", file |-> "threatfox_report.md",
                     ws |-> ws_slug, res |-> Outcome(resp),
                     content |-> build_markdown_report(normalized)])
         /\ IF upload_document(resp).exc # "none"
            THEN Exit(1)
            ELSE Goto("sleep")
    /\ tmpdir' = FALSE
    /\ UNCHANGED <<script, env, args, normalized, ws_slug, thread_slug,
                   created_slug, questions, turn, failedTurns, printed>>

\* mutant of D_Sleep: the settling delay is left out
D_SleepSkipped ==
    /\ script = "daily" /\ pc = "sleep"
    /\ Goto("questions")
    /\ UNCHANGED <<script, env, args, log, normalized, ws_slug, thread_slug,
                   created_slug, questions, turn, failedTurns, tmpdir, printed>>

\* main, step 5: time.sleep(EMBED_WAIT_SECONDS)
D_Sleep ==
    /\ script = "daily" /\ pc = "sleep"
    /\ IF EMBED_WAIT_SECONDS > 0
       THEN Request([op |-> "sleep", seconds |-> EMBED_WAIT_SECONDS, res |-> "ok"])
       ELSE UNCHANGED log
    /\ Goto("questions")
    /\ UNCHANGED <<script, env, args, normalized, ws_slug, thread_slug,
                   created_slug, questions, turn, failedTurns, tmpdir, printed>>

\* main, step 6: the questions; an exception of the generator is not caught
D_Questions ==
    /\ script = "daily" /\ pc = "questions"
    /\ IF use_llm_questions
       THEN \E resp \in CompletionResponses :
              /\ Request([op |-> "qgen", ws |-> ws_slug, res |-> Outcome(resp),
                          ret |-> generate_questions(resp)])
              /\ LET r == generate_questions(resp) IN
                 IF r.exc # "none"
                 THEN Crash /\ UNCHANGED <<questions, turn>>
                 ELSE /\ questions' = SelectQuestions(TRUE, r.val, mission)
                      /\ turn' = 1
                      /\ Goto("chat")
       ELSE /\ questions' = SelectQuestions(FALSE, Null, mission)
            /\ turn' = 1
            /\ Goto("chat")
            /\ UNCHANGED log
    /\ UNCHANGED <<script, env, args, normalized, ws_slug, thread_slug,
                   created_slug, failedTurns, tmpdir, printed>>

\* mutant of D_Turn: a turn that failed is sent once more
D_TurnRetriesOnce ==
    /\ script = "daily" /\ pc = "chat" /\ turn <= Len(questions)
    /\ \E resp \in ChatResponses :
         /\ Request([op |-> "chat", ws |-> ws_slug, thread |-> thread_slug,
                     message |-> questions[turn],
                     res |-> IF chat_stream(resp).exc = "none" THEN "ok"
                             ELSE "failed"])
         /\ failedTurns' = IF chat_stream(resp).exc # "none"
                           THEN failedTurns \cup {turn} ELSE failedTurns
         /\ turn' = IF chat_stream(resp).exc # "none" /\ turn \notin failedTurns
                    THEN turn ELSE turn + 1
    /\ Goto("chat")
    /\ UNCHANGED <<script, env, args, normalized, ws_slug, thread_slug,
                   created_slug, questions, tmpdir, printed>>

\* mutant of D_Turn: a failed turn ends the run
D_TurnFatal ==
    /\ script = "daily" /\ pc = "chat" /\ turn <= Len(questions)
    /\ \E resp \in ChatResponses :
         /\ Request([op |-> "chat", ws |-> ws_slug, thread |-> thread_slug,
                     message |-> questions[turn],
                     res |-> IF chat_stream(resp).exc = "none" THEN "ok"
                             ELSE "failed"])
         /\ IF chat_stream(resp).exc # "none"
            THEN Exit(1) /\ failedTurns' = failedTurns \cup {turn}
            ELSE Goto("chat") /\ UNCHANGED failedTurns
    /\ turn' = turn + 1
    /\ UNCHANGED <<script, env, args, normalized, ws_slug, thread_slug,
                   created_slug, questions, tmpdir, printed>>

\* mutant of D_Turn: after a failed turn the questions are selected again,
\* from the templates
D_TurnRegenerates ==
    /\ script = "daily" /\ pc = "chat" /\ turn <= Len(questions)
    /\ \E resp \in ChatResponses :
         /\ Request([op |-> "chat", ws |-> ws_slug, thread |-> thread_slug,
                     message |-> questions[turn],
                     res |-> IF chat_stream(resp).exc = "none" THEN "ok"
                             ELSE "failed"])
         /\ IF chat_stream(resp).exc # "none"
            THEN /\ failedTurns' = failedTurns \cup {turn}
                 /\ questions' = SelectQuestions(FALSE, Null, mission)
            ELSE UNCHANGED <<failedTurns, questions>>
    /\ turn' = turn + 1
    /\ Goto("chat")
    /\ UNCHANGED <<script, env, args, normalized, ws_slug, thread_slug,
                   created_slug, tmpdir, printed>>

\* main, step 7: one iteration of the for loop over questions; the except
\* clause catches requests.RequestException only
D_Turn ==
    /\ script = "daily" /\ pc = "chat" /\ turn <= Len(questions)
    /\ \E resp \in ChatResponses :
         /\ Request([op |-> "chat", ws |-> ws_slug, thread |-> thread_slug,
                     message |-> questions[turn],
                     res |-> CASE chat_stream(resp).exc = "none" -> "ok"
                               [] chat_stream(resp).exc = "RequestException" -> "failed"
                               [] OTHER -> "crashed"])
         /\ failedTurns' = IF chat_stream(resp).exc = "RequestException"
                           THEN failedTurns \cup {turn} ELSE failedTurns
         /\ IF chat_stream(resp).exc \in {"none", "RequestException"}
            THEN Goto("chat") ELSE Crash
    /\ turn' = turn + 1
    /\ UNCHANGED <<script, env, args, normalized, ws_slug, thread_slug,
                   created_slug, questions, tmpdir, printed>>

\* main, step 8: the loop is over; the final status line, then main returns
D_Summary ==
    /\ script = "daily" /\ pc = "chat" /\ turn > Len(questions)
    /\ Finish
    /\ UNCHANGED <<script, env, args, log, normalized, ws_slug, thread_slug,
                   created_slug, questions, turn, failedTurns, tmpdir, printed>>

-----------------------------------------------------------------------------
(* threatfox_ioc.py: main *)

\* the whole of main: one request at most
I_Main ==
    /\ script = "ioc" /\ pc = "start"
    /\ IF ~FeedKeyAccepted
       THEN Exit(1) /\ UNCHANGED <<log, printed>>
       ELSE \E resp \in FeedResponses :
              /\ Request(FeedRequest(resp))
              /\ LET r == get_recent_iocs(resp) IN
                 IF r.exc # "none" THEN Exit(1) /\ UNCHANGED printed
                 ELSE IF ~StatusOk(r.val) THEN Exit(1) /\ UNCHANGED printed
                 ELSE LET data == GetD(r.val, "data", EmptyLst) IN
                      IF data.t = "null"
                      THEN Crash /\ UNCHANGED printed
                      ELSE /\ printed' = Obj([query_status |-> Get(r.val, "query_status"),
                                              count |-> Num(Len(data.v)),
                                              data |-> data])
                           /\ Finish
    /\ UNCHANGED <<script, env, args, normalized, ws_slug, thread_slug,
                   created_slug, questions, turn, failedTurns, tmpdir>>

-----------------------------------------------------------------------------
(* anythingllm_chat.py: main *)

DEFAULT_WORKSPACE_NAME == "Script Chat"
MATH_QUESTION == "What is 17 * 23? Please state only the number."

\* main: preferred_workspace
preferred_workspace ==
    Or(Str(Strip(Getenv("ANYTHINGLLM_WORKSPACE_NAME", ""))), Null)

\* main: the credential check (the value is not stripped)
C_Validate ==
    /\ script = "chat" /\ pc = "start"
    /\ IF \/ ~IsSet("ANYTHINGLLM_API_KEY")
          \/ env["ANYTHINGLLM_API_KEY"] = ""
          \/ env["ANYTHINGLLM_API_KEY"] = "your-api-key-here"
       THEN Exit(1)
       ELSE Goto("ws_list")
    /\ UNCHANGED <<script, env, args, log, normalized, ws_slug, thread_slug,
                   created_slug, questions, turn, failedTurns, tmpdir, printed>>

C_ListWorkspaces ==
    /\ script = "chat" /\ pc = "ws_list"
    /\ \E resp \in ListResponses :
         /\ Request(ListRequest(resp))
         /\ LET r == get_workspace_slug(resp, preferred_workspace) IN
            IF r.exc # "none" THEN Exit(1) /\ UNCHANGED ws_slug
            ELSE /\ ws_slug' = r.val
                 /\ IF Truthy(r.val) THEN Goto("thread")
                    ELSE IF Truthy(preferred_workspace) THEN Exit(1)
                    ELSE Goto("ws_create")
    /\ UNCHANGED <<script, env, args, normalized, thread_slug, created_slug,
                   questions, turn, failedTurns, tmpdir, printed>>

C_CreateWorkspace ==
    /\ script = "chat" /\ pc = "ws_create"
    /\ \E resp \in CreateResponses :
         /\ Request(CreateRequest(DEFAULT_WORKSPACE_NAME, resp))
         /\ LET r == create_workspace(resp) IN
            IF r.exc # "none" THEN Exit(1) /\ UNCHANGED ws_slug
            ELSE /\ ws_slug' = r.val
                 /\ IF Truthy(r.val) THEN Goto("thread") ELSE Exit(1)
    /\ UNCHANGED <<script, env, args, normalized, thread_slug, created_slug,
                   questions, turn, failedTurns, tmpdir, printed>>

\* main: _thread_slug_and_name, create_thread, _new_thread_slug
C_CreateThread ==
    /\ script = "chat" /\ pc = "thread"
    /\ \E now \in Clock, u \in Uuids, resp \in ThreadResponses :
         LET created == create_thread(resp)
         IN /\ Request([op |-> "thread_create", ws |-> ws_slug, slug |-> now,
                        res |-> Outcome(resp), returned |-> created])
            /\ created_slug' = created
            /\ thread_slug' = IF Truthy(created) THEN created ELSE Str(u)
    /\ Goto("chat")
    /\ UNCHANGED <<script, env, args, normalized, ws_slug, questions, turn,
                   failedTurns, tmpdir, printed>>

\* str(x) for the values an event field may hold
PyStr(x) ==
    CASE x.t = "str"  -> x.v
      [] x.t = "null" -> ""
      [] x.t = "bool" -> IF x.v THEN "True" ELSE "False"
      [] x.t = "num"  -> ToString(x.v)
      [] OTHER        -> "<object>"

\* main: what is printed once chat_stream has returned (text, last_event)
Answer(r) ==
    LET ev == r.last_event
        fb == IF r.text = "" /\ Truthy(ev)
              THEN Or(Get(ev, "textResponse"), Or(Get(ev, "response"),
                   Or(Get(ev, "text"), Or(Get(ev, "answer"),
                   Or(Get(ev, "message"), Or(Get(ev, "content"), Str("")))))))
              ELSE Str(r.text)
        text == PyStr(fb)
    IN IF text # "" THEN Str("Answer: " \o text)
       ELSE IF Truthy(ev) THEN ev
       ELSE Str("No response text received.")

\* mutant of C_Chat: every error status leads to the workspace-level chat
C_ChatFallsBackOnAnyStatus ==
    /\ script = "chat" /\ pc = "chat"
    /\ \E resp \in ChatResponses :
         /\ Request([op |-> "chat", ws |-> ws_slug, thread |-> thread_slug,
                     message |-> MATH_QUESTION, res |-> Outcome(resp),
                     status |-> IF resp.net = "ok" THEN resp.status ELSE 0])
         /\ LET r == chat_stream_with_event(resp) IN
            IF r.exc = "none"
            THEN Finish /\ printed' = Answer(r.val) /\ UNCHANGED thread_slug
            ELSE IF r.exc # "RequestException"
                 THEN Crash /\ UNCHANGED <<thread_slug, printed>>
            ELSE IF /\ ~Truthy(created_slug) /\ Truthy(thread_slug)
                    /\ resp.net = "ok"
                 THEN Goto("chat_ws") /\ thread_slug' = Null /\ UNCHANGED printed
                 ELSE Exit(1) /\ UNCHANGED <<thread_slug, printed>>
    /\ UNCHANGED <<script, env, args, normalized, ws_slug, created_slug,
                   questions, turn, failedTurns, tmpdir>>

\* main: the chat request at thread level, and the handling of its failure
C_Chat ==
    /\ script = "chat" /\ pc = "chat"
    /\ \E resp \in ChatResponses :
         /\ Request([op |-> "chat", ws |-> ws_slug, thread |-> thread_slug,
                     message |-> MATH_QUESTION, res |-> Outcome(resp),
                     status |-> IF resp.net = "ok" THEN resp.status ELSE 0])
         /\ LET r == chat_stream_with_event(resp) IN
            IF r.exc = "none"
            THEN Finish /\ printed' = Answer(r.val) /\ UNCHANGED thread_slug
            ELSE IF r.exc # "RequestException"
                 THEN Crash /\ UNCHANGED <<thread_slug, printed>>
            ELSE IF /\ ~Truthy(created_slug) /\ Truthy(thread_slug)
                    /\ resp.net = "ok"
                    /\ resp.status \in {400, 404}
                 THEN Goto("chat_ws") /\ thread_slug' = Null /\ UNCHANGED printed
                 ELSE Exit(1) /\ UNCHANGED <<thread_slug, printed>>
    /\ UNCHANGED <<script, env, args, normalized, ws_slug, created_slug,
                   questions, turn, failedTurns, tmpdir>>

\* main: the workspace-level chat inside the except block; nothing catches
\* an exception raised there
C_ChatWorkspace ==
    /\ script = "chat" /\ pc = "chat_ws"
    /\ \E resp \in ChatResponses :
         /\ Request([op |-> "chat", ws |-> ws_slug, thread |-> Null,
                     message |-> MATH_QUESTION, res |-> Outcome(resp),
                     status |-> IF resp.net = "ok" THEN resp.status ELSE 0])
         /\ LET r == chat_stream_with_event(resp) IN
            IF r.exc = "none"
            THEN Finish /\ printed' = Answer(r.val)
            ELSE Crash /\ UNCHANGED printed
    /\ UNCHANGED <<script, env, args, normalized, ws_slug, thread_slug,
                   created_slug, questions, turn, failedTurns, tmpdir>>

-----------------------------------------------------------------------------

Next ==
    \/ D_Validate
    \/ D_Fetch
    \/ D_ListWorkspaces
    \/ D_CreateWorkspace
    \/ D_CreateThread
    \/ D_UploadJson
    \/ D_UploadMarkdown
    \/ D_Sleep
    \/ D_Questions
    \/ D_Turn
    \/ D_Summary
    \/ I_Main
    \/ C_Validate
    \/ C_ListWorkspaces
    \/ C_CreateWorkspace
    \/ C_CreateThread
    \/ C_Chat
    \/ C_ChatWorkspace

Spec == Init /\ [][Next]_vars

-----------------------------------------------------------------------------
(* The functions on their own: a run applies one function to one input.     *)
(* script names the function, args holds the input, printed the result.     *)

\* all sequences over S of length at most n
SeqsUpTo(S, n) == UNION { [1..k -> S] : k \in 0..n }

PureInit(fn, inputs) ==
    /\ script = fn
    /\ args \in inputs
    /\ env = <<>>
    /\ pc = "start"
    /\ exitCode = -1
    /\ crashed = FALSE
    /\ log = <<>>
    /\ normalized = Null
    /\ ws_slug = Null
    /\ thread_slug = Null
    /\ created_slug = Null
    /\ questions = <<>>
    /\ turn = 0
    /\ failedTurns = {}
    /\ tmpdir = FALSE
    /\ printed = Null

\* the call returns result, or raises when raised holds
PureApply(fn, raised, result) ==
    /\ script = fn /\ pc = "start"
    /\ IF raised THEN Crash /\ UNCHANGED printed
       ELSE Finish /\ printed' = result
    /\ UNCHANGED <<script, env, args, log, normalized, ws_slug, thread_slug,
                   created_slug, questions, turn, failedTurns, tmpdir>>

-----------------------------------------------------------------------------
(* get_workspace_slug on its own *)

MaxListed == 2

ListedEntries ==
    { WsEntry("My WS", "a"), WsEntry("my ws", "b"), WsEntry(" MY WS ", "c"),
      WsEntry("Other", "d"), Obj([name |-> Str("my ws")]),
      Obj([name |-> Null, slug |-> Str("e")]) }

ResolveInputs ==
    [ workspaces : SeqsUpTo(ListedEntries, MaxListed),
      preferred : { Null, Str("My WS"), Str("my ws"), Str("Other"), Str("Absent") } ]

ResolveInit == PureInit("get_workspace_slug", ResolveInputs)

ResolveApply ==
    LET r == get_workspace_slug(Http(200, Obj([workspaces |-> Lst(args.workspaces)])),
                                args.preferred)
    IN PureApply("get_workspace_slug", r.exc # "none", r.val)

ResolveNext == ResolveApply

ResolveSpec == ResolveInit /\ [][ResolveNext]_vars

-----------------------------------------------------------------------------
(* chat_stream on its own: the lines of one 2xx stream *)

MaxLines == 3

StreamLines ==
    { "", "data: [DONE]", "data: {broken",
      "data: {\"textResponse\": \"Hel\"}",
      "data: {\"textResponse\": \"\", \"text\": \"lo\"}",
      "  {\"delta\": \"!\"}  ",
      "data: {\"close\": true}",
      "data: {\"textResponse\": \"A\", \"text\": \"B\", \"delta\": \"C\"}",
      "data: {\"text\": \"B\", \"delta\": \"C\"}",
      "data: {\"textResponse\": null, \"text\": [], \"delta\": \"C\"}",
      "data: {\"textResponse\": 5, \"text\": \"B\"}",
      "data: null" }

StreamInit == PureInit("chat_stream", SeqsUpTo(StreamLines, MaxLines))

StreamApply ==
    LET r == chat_stream(Http(200, args))
    IN PureApply("chat_stream", r.exc # "none", IF r.exc = "none" THEN r.val ELSE Null)

StreamNext == StreamApply

StreamSpec == StreamInit /\ [][StreamNext]_vars

-----------------------------------------------------------------------------
(* _parse_three_questions on its own: the reply is the given lines, each    *)
(* ended by a newline                                                       *)

MaxReplyLines == 4

ReplyLines ==
    { "", "  ", "1. Question A", "2) Question B", "3 - Question C",
      " Plain question? ", "3 apples", "1.", "7.)" }

RECURSIVE JoinLines(_)
JoinLines(q) == IF q = <<>> THEN "" ELSE Head(q) \o "\n" \o JoinLines(Tail(q))

ParseInit == PureInit("_parse_three_questions", SeqsUpTo(ReplyLines, MaxReplyLines))

ParseApply ==
    PureApply("_parse_three_questions", FALSE, _parse_three_questions(JoinLines(args)))

ParseNext == ParseApply

ParseSpec == ParseInit /\ [][ParseNext]_vars

-----------------------------------------------------------------------------
(* _template_questions on its own: the mission is None or a text *)

MaxMission == 4

MissionChars == { " ", "a", "b" }

RECURSIVE Text(_)
Text(q) == IF q = <<>> THEN "" ELSE Head(q) \o Text(Tail(q))

MissionInputs ==
    {Null, Str("ransomware triage"), Str(" ransomware triage ")}
        \cup { Str(Text(q)) : q \in SeqsUpTo(MissionChars, MaxMission) }

TemplateInit == PureInit("_template_questions", MissionInputs)

TemplateApply == PureApply("_template_questions", FALSE, _template_questions(args))

TemplateNext == TemplateApply

TemplateSpec == TemplateInit /\ [][TemplateNext]_vars

-----------------------------------------------------------------------------
(* build_markdown_report on its own: the report of the records of one feed  *)
(* response with status "ok", normalized as main does                       *)

MaxRows == 3

IocPipes ==
    Obj([ioc |-> Str("|a||b|"), malware_printable |-> Null,
         malware |-> Str("Agent|Tesla"), threat_type |-> Str("pay|load"),
         threat_type_desc |-> Str("Payload delivery"),
         first_seen |-> Str("2026-01-27|10:00"), confidence_level |-> Num(100)])

IocNulls ==
    Obj([ioc |-> Str("evil.example"), malware_printable |-> Str(""),
         malware |-> Null, threat_type |-> Null,
         threat_type_desc |-> Str("Botnet|C2"), first_seen |-> Null])

FeedRecords == { IocFull, IocSparse, IocPipes, IocNulls, EmptyObj }

ReportInit == PureInit("build_markdown_report", SeqsUpTo(FeedRecords, MaxRows))

ReportApply ==
    PureApply("build_markdown_report", FALSE,
              build_markdown_report(
                  Normalize(Obj([query_status |-> Str("ok"), data |-> Lst(args)]))))

ReportNext == ReportApply

ReportSpec == ReportInit /\ [][ReportNext]_vars

-----------------------------------------------------------------------------
(* Reading the log *)

LogIdx(op) == {k \in DOMAIN log : log[k].op = op}
Issued(op) == LogIdx(op) # {}
Last(q) == q[Len(q)]

\* the messages of the chat requests, in the order sent
ChatMessages ==
    LET sent == SelectSeq(log, LAMBDA e : e.op = "chat")
    IN [k \in 1..Len(sent) |-> sent[k].message]

\* the upload of the named file was issued and succeeded at position k
UploadedAt(k, file) ==
    log[k].op = "upload" /\ log[k].file = file /\ log[k].res = "ok"

\* the thread-create request at position k failed: transport error, non-2xx
\* status, or a response without a thread slug
ThreadFailedAt(k) ==
    /\ log[k].op = "thread_create"
    /\ log[k].res \in {"transport", "status"} \/ ~Truthy(log[k].returned)

-----------------------------------------------------------------------------
C2_TurnsIndependent ==
    script = "daily" =>
        /\ Len(ChatMessages) <= Len(questions)
        /\ ChatMessages = SubSeq(questions, 1, Len(ChatMessages))
        /\ pc = "chat" => Len(ChatMessages) = turn - 1 /\ ENABLED Next
        /\ pc = "exit" => ChatMessages = <<>>
        /\ pc = "done" => /\ ChatMessages = questions
                          /\ Len(questions) = 4
                          /\ exitCode = 0 /\ ~crashed

\* a finished run whose first and third turns failed and whose others did not
C2_Witness ==
    /\ script = "daily" /\ pc = "done" /\ exitCode = 0
    /\ failedTurns = {1, 3}
    /\ Len(ChatMessages) = 4

(* C3: a failed document upload (JSON or markdown) aborts the run with a    *)
(* non-zero exit, and nothing is requested after it: the failed upload is   *)
(* the last entry of the log, so no question generation and no chat follow. *)
C3_UploadFailureFatal ==
    \A k \in DOMAIN log :
        (log[k].op = "upload" /\ log[k].res # "ok") =>
            /\ k = Len(log)
            /\ pc = "exit" /\ exitCode = 1
            /\ ~Issued("qgen") /\ ~Issued("chat")
            /\ ~ENABLED Next

\* the markdown upload failed after the JSON upload had succeeded
C3_Witness ==
    /\ script = "daily" /\ pc = "exit"
    /\ \E k \in DOMAIN log :
          /\ log[k].op = "upload" /\ log[k].file = "threatfox_report.md"
          /\ log[k].res = "status"
          /\ UploadedAt(k - 1, "threatfox_iocs.json")

(* C4: a feed response whose query_status is not "ok" (missing included)    *)
(* aborts the run with a non-zero exit; the feed request stays the only     *)
(* request, so no workspace, thread, upload or chat request is issued.      *)
C4_FeedStatusFatal ==
    \A k \in DOMAIN log :
        (log[k].op = "feed" /\ log[k].res = "ok"
            /\ ~(log[k].query_status.t = "str" /\ log[k].query_status.v = "ok")) =>
            /\ Len(log) = 1
            /\ pc = "exit" /\ exitCode = 1
            /\ normalized = Null /\ printed = Null
            /\ ~ENABLED Next

\* the orchestrator aborted on a feed response without a query_status
C4_Witness ==
    /\ script = "daily" /\ pc = "exit" /\ exitCode = 1
    /\ Len(log) = 1
    /\ log[1].op = "feed" /\ log[1].res = "ok" /\ log[1].query_status = Null

\* the credential is missing, empty, or the placeholder
BadCredential(name, placeholder) ==
    ~IsSet(name) \/ env[name] = "" \/ env[name] = placeholder

RequiredCredentialBad ==
    \/ /\ script = "daily"
       /\ \/ BadCredential("THREATFOX_AUTH_KEY", "your-auth-key-here")
          \/ BadCredential("ANYTHINGLLM_API_KEY", "your-api-key-here")
    \/ /\ script = "chat"
       /\ BadCredential("ANYTHINGLLM_API_KEY", "your-api-key-here")

(* C5: in the orchestrators (daily report, chat script) a required          *)
(* credential that is missing, empty or the placeholder makes the process   *)
(* abort with a non-zero exit before any network call: the log stays empty  *)
(* and the only step taken ends the process with status 1.                  *)
C5_BadCredentialAbortsFirst ==
    RequiredCredentialBad =>
        /\ log = <<>>
        /\ pc \in {"start", "exit"}
        /\ pc = "exit" => exitCode = 1 /\ ~crashed

\* the daily report aborted on the placeholder API key, the feed key being good
C5_Witness ==
    /\ script = "daily" /\ pc = "exit" /\ exitCode = 1
    /\ ~BadCredential("THREATFOX_AUTH_KEY", "your-auth-key-here")
    /\ IsSet("ANYTHINGLLM_API_KEY") /\ env["ANYTHINGLLM_API_KEY"] = "your-api-key-here"

(* C6: get_recent_iocs fails with a configuration error without sending    *)
(* the HTTP request both when the feed credential is absent and when it is  *)
(* the placeholder: no feed request is ever in the log then, and the        *)
(* feed-client script ends with status 1.                                   *)
C6_FeedClientRejectsPlaceholder ==
    (~IsSet("THREATFOX_AUTH_KEY") \/ env["THREATFOX_AUTH_KEY"] = "your-auth-key-here") =>
        /\ ~Issued("feed")
        /\ (script = "ioc" /\ pc # "start") => pc = "exit" /\ exitCode = 1

\* a completed run of the in-workspace strategy that returned 3 questions
LlmReturnedThree ==
    {k \in LogIdx("qgen") :
        /\ log[k].ret.exc = "none"
        /\ log[k].ret.val.t = "list"
        /\ Len(log[k].ret.val.v) = 3}

(* C7: every failure of the in-workspace question generation is soft: once  *)
(* the question-generation request has been issued the run is not aborted   *)
(* and the conversation phase is reached with the full list of questions.   *)
C7_QuestionGenFailureSoft ==
    Issued("qgen") =>
        /\ ~crashed
        /\ pc \in {"chat", "done"}
        /\ Len(questions) = 4

(* C8: question selection: the in-workspace strategy is requested exactly   *)
(* when it is enabled, and at most once; its questions are the selected     *)
(* ones exactly when it returned 3 questions, otherwise the template        *)
(* questions are; the selected set has 3 questions and the final list is    *)
(* those 3 followed by the fixed summary question (4 entries).              *)
C8_QuestionSelection ==
    (script = "daily" /\ pc \in {"chat", "done"}) =>
        /\ Issued("qgen") <=> use_llm_questions
        /\ Cardinality(LogIdx("qgen")) <= 1
        /\ Len(questions) = 4
        /\ questions[4] = SUMMARY_QUESTION
        /\ SubSeq(questions, 1, 3) =
              IF LlmReturnedThree # {}
              THEN log[CHOOSE k \in LlmReturnedThree : TRUE].ret.val.v
              ELSE _template_questions(mission)

\* the strategy was enabled and failed softly, so the mission-tailored
\* templates were selected
C8_Witness ==
    /\ script = "daily" /\ pc = "done"
    /\ Issued("qgen") /\ LlmReturnedThree = {}
    /\ Truthy(mission)
    /\ SubSeq(questions, 1, 3) = _template_questions(mission)
    /\ SubSeq(questions, 1, 3) # TEMPLATE_QUESTIONS

(* C9: the ordered question list is fixed before the conversation phase:    *)
(* every question-generation request precedes the first chat request, and   *)
(* no step taken in the conversation phase changes the list or issues a     *)
(* question-generation request.                                             *)
C9_QuestionsFixedBeforeTurns ==
    /\ [](\A q \in LogIdx("qgen") : \A c \in LogIdx("chat") : q < c)
    /\ [][ (script = "daily" /\ (pc = "chat" \/ Issued("chat"))) =>
              /\ Len(questions) = 4
              /\ questions' = questions
              /\ {k \in DOMAIN log' : log'[k].op = "qgen"} = LogIdx("qgen") ]_vars

\* the third turn is about to run on questions the in-workspace strategy
\* generated, an earlier turn having failed
C9_Witness ==
    /\ script = "daily" /\ pc = "chat" /\ turn = 3
    /\ LlmReturnedThree # {}
    /\ failedTurns # {}

(* C10: the steps of the daily report occur in order: JSON upload, markdown *)
(* upload, settling delay, question selection, conversation turns; a        *)
(* question-generation or chat request is issued only after both uploads    *)
(* have succeeded and the delay has elapsed.                                *)
C10_StepOrder ==
    script = "daily" =>
        /\ \A k \in DOMAIN log :
              /\ log[k].op \in {"qgen", "chat"} =>
                    \E a \in 1..(k - 3) :
                        /\ UploadedAt(a, "threatfox_iocs.json")
                        /\ UploadedAt(a + 1, "threatfox_report.md")
                        /\ log[a + 2].op = "sleep"
              /\ (log[k].op = "upload" /\ log[k].file = "threatfox_report.md") =>
                    k > 1 /\ UploadedAt(k - 1, "threatfox_iocs.json")
              /\ log[k].op = "sleep" =>
                    /\ log[k].seconds = EMBED_WAIT_SECONDS
                    /\ k > 2 /\ UploadedAt(k - 1, "threatfox_report.md")
        /\ questions # <<>> => Issued("sleep")
        /\ pc \in {"questions", "chat", "done"} => Issued("sleep")
        /\ Issued("chat") => Len(questions) = 4
        /\ Cardinality(LogIdx("upload")) <= 2 /\ Cardinality(LogIdx("sleep")) <= 1

\* a finished run: two uploads, the delay, the generation request, four turns
C10_Witness ==
    /\ script = "daily" /\ pc = "done"
    /\ Issued("qgen")
    /\ Cardinality(LogIdx("upload")) = 2
    /\ Cardinality(LogIdx("sleep")) = 1
    /\ Cardinality(LogIdx("chat")) = 4

\* the slugs main can derive from the clock and a uuid:
\* strftime("%Y-%m-%d-%H-%M-%S") + "-" + the first 8 characters of uuid4()
DerivedSlugs == { now \o "-" \o SubSeq(u, 1, 8) : now \in Clock, u \in Uuids }

\* the slug a thread-create request settles on: the returned one, else its own
SettledSlug(e) == IF Truthy(e.returned) THEN e.returned ELSE Str(e.slug)

(* C11: a daily-report run issues exactly one thread-create request, with a *)
(* slug derived from the clock and a uuid; every chat request goes to one   *)
(* thread slug, the one the server returned when creation succeeded and     *)
(* the locally derived one otherwise; and no step of the conversation       *)
(* phase changes the thread slug.                                           *)
C11_OneThreadPerRun ==
    /\ [](script = "daily" =>
            /\ Cardinality(LogIdx("thread_create")) <= 1
            /\ pc \in {"upload_json", "upload_md", "sleep", "questions", "chat", "done"}
                  => Cardinality(LogIdx("thread_create")) = 1
            /\ \A k \in LogIdx("thread_create") :
                  /\ log[k].slug \in DerivedSlugs
                  /\ thread_slug = SettledSlug(log[k])
                  /\ \A c \in LogIdx("chat") :
                        c > k /\ log[c].thread = SettledSlug(log[k])
            /\ Issued("chat") => Issued("thread_create"))
    /\ [][ (script = "daily" /\ (pc = "chat" \/ Issued("chat"))) =>
              thread_slug' = thread_slug ]_vars

\* a finished run whose four turns went to the slug the server returned,
\* which is not the locally derived one
C11_Witness ==
    /\ script = "daily" /\ pc = "done"
    /\ Cardinality(LogIdx("chat")) = 4
    /\ \E k \in LogIdx("thread_create") :
          /\ Truthy(log[k].returned)
          /\ log[k].returned # Str(log[k].slug)
          /\ \A c \in LogIdx("chat") : log[c].thread = log[k].returned

\* the requests of one kind that carry the given file
UploadsOf(file) == {k \in LogIdx("upload") : log[k].file = file}

\* every request other than a chat request is issued at most once in a run,
\* each upload once per document
NonChatRequestsOnce ==
    /\ \A op \in {"feed", "ws_list", "ws_create", "thread_create", "qgen"} :
          Cardinality(LogIdx(op)) <= 1
    /\ \A k \in LogIdx("upload") :
          log[k].file \in {"threatfox_iocs.json", "threatfox_report.md"}
    /\ \A f \in {"threatfox_iocs.json", "threatfox_report.md"} :
          Cardinality(UploadsOf(f)) <= 1

\* in the daily report the k-th chat request carries the k-th question
DailyQuestionsOnce ==
    script = "daily" =>
        /\ Len(ChatMessages) <= Len(questions)
        /\ ChatMessages = SubSeq(questions, 1, Len(ChatMessages))

(* C12 as stated: no remote request is retried; feed fetch, workspace list, *)
(* workspace create, thread create, each document upload, the question-     *)
(* generation completion and each question's chat request are each issued   *)
(* at most once in a run of any of the scripts.                             *)
C12_NoRequestRepeated ==
    /\ NonChatRequestsOnce
    /\ DailyQuestionsOnce
    /\ script # "daily" => Cardinality(LogIdx("chat")) <= 1

(* C12 amended: as above, except that the single-question chat script       *)
(* sends its question a second time, once and at workspace level, exactly   *)
(* when the thread was not created remotely and the thread-level request    *)
(* was answered with HTTP 400 or 404; nothing is sent after that.           *)
C12_NoRetryButWorkspaceChat ==
    /\ NonChatRequestsOnce
    /\ DailyQuestionsOnce
    /\ script = "ioc" => ~Issued("chat")
    /\ script = "chat" =>
          /\ Cardinality(LogIdx("chat")) <= 2
          /\ \A k \in LogIdx("chat") :
                \/ k = Len(log) /\ pc \in {"done", "exit"}
                \/ /\ k = Len(log) /\ pc = "chat_ws"
                   /\ log[k].status \in {400, 404} /\ ~Truthy(created_slug)
                \/ /\ k = Len(log) - 1 /\ log[k + 1].op = "chat"
                   /\ log[k].status \in {400, 404} /\ ~Truthy(created_slug)
                   /\ log[k].thread # Null /\ log[k + 1].thread = Null
                   /\ log[k + 1].message = log[k].message
                   /\ pc \in {"done", "exit"}

\* the chat script sent its question twice: to the thread, answered 404, and
\* then at workspace level, where it was answered
C12_Witness ==
    /\ script = "chat" /\ pc = "done"
    /\ Cardinality(LogIdx("chat")) = 2
    /\ log[Len(log) - 1].op = "chat" /\ log[Len(log) - 1].status = 404
    /\ Last(log).op = "chat" /\ Last(log).res = "ok" /\ Last(log).thread = Null

\* the name the run resolves, and the name it creates a workspace with
ConfiguredName ==
    IF script = "daily" THEN Str(workspace_name) ELSE preferred_workspace

CreatedName ==
    IF script = "daily" THEN workspace_name ELSE DEFAULT_WORKSPACE_NAME

\* the workspaces of the listing at position k whose name equals the
\* configured name up to letter case
ListedMatches(k) ==
    {i \in DOMAIN log[k].listed.v :
        LET nm == Get(log[k].listed.v[i], "name")
        IN /\ Truthy(ConfiguredName)
           /\ nm.t = "str"
           /\ Lower(nm.v) = Lower(ConfiguredName.v)}

\* what resolve reported on the listing at position k
Resolved(k) ==
    get_workspace_slug(Http(200, Obj([workspaces |-> log[k].listed])),
                       ConfiguredName).val

(* C13: getOrCreate: a workspace-create request is issued at most once per  *)
(* run, only directly after a listing on which resolve reported not-found,  *)
(* and with the configured name; when the listing holds a workspace whose   *)
(* name equals the configured name up to letter case, no create request is  *)
(* issued and the slug used for the rest of the run is that workspace's.    *)
C13_GetOrCreate ==
    script \in {"daily", "chat"} =>
        /\ Cardinality(LogIdx("ws_create")) <= 1
        /\ \A c \in LogIdx("ws_create") :
              /\ c > 1 /\ log[c - 1].op = "ws_list" /\ log[c - 1].res = "ok"
              /\ ~Truthy(Resolved(c - 1))
              /\ log[c].name = CreatedName
        /\ \A k \in LogIdx("ws_list") :
              ListedMatches(k) # {} =>
                  /\ ~Issued("ws_create")
                  /\ Truthy(ws_slug) =>
                        \E i \in ListedMatches(k) :
                            ws_slug = Get(log[k].listed.v[i], "slug")

\* the listed workspaces whose name equals the given one up to letter case
SameNameUpToCase ==
    {i \in DOMAIN args.workspaces :
        LET nm == Get(args.workspaces[i], "name")
        IN nm.t = "str" /\ Lower(nm.v) = Lower(args.preferred.v)}

\* the listed workspaces whose name, surrounding whitespace removed, equals
\* the given one up to letter case (a missing name counts as empty)
SameNameTrimmed ==
    {i \in DOMAIN args.workspaces :
        LET nm == Or(Get(args.workspaces[i], "name"), Str(""))
        IN Lower(Strip(nm.v)) = Lower(Strip(args.preferred.v))}

Min(S) == CHOOSE x \in S : \A y \in S : x <= y

C15_TempDirReleased ==
    /\ pc \in {"exit", "done"} => ~tmpdir
    /\ tmpdir => /\ script = "daily" /\ pc = "upload_md"
                 /\ UploadedAt(Len(log), "threatfox_iocs.json")
    /\ UploadsOf("threatfox_report.md") # {} => ~tmpdir

\* the run aborted on the markdown upload, inside the with block, after the
\* JSON upload had succeeded, and the directory is gone
C15_Witness ==
    /\ script = "daily" /\ pc = "exit" /\ exitCode = 1
    /\ ~tmpdir
    /\ Len(log) > 1
    /\ UploadedAt(Len(log) - 1, "threatfox_iocs.json")
    /\ Last(log).op = "upload" /\ Last(log).file = "threatfox_report.md"
    /\ Last(log).res # "ok"

\* the fragment a stream line carries: the text of a JSON-object line, and
\* nothing for keep-alive, terminator and malformed lines
Fragment(line) ==
    CASE line = "data: {\"textResponse\": \"Hel\"}" -> "Hel"
      [] line = "data: {\"textResponse\": \"\", \"text\": \"lo\"}" -> "lo"
      [] line = "  {\"delta\": \"!\"}  " -> "!"
      [] line = "data: {\"textResponse\": \"A\", \"text\": \"B\", \"delta\": \"C\"}" -> "A"
      [] line = "data: {\"text\": \"B\", \"delta\": \"C\"}" -> "B"
      [] line = "data: {\"textResponse\": null, \"text\": [], \"delta\": \"C\"}" -> "C"
      [] OTHER -> ""

RECURSIVE Concat(_)
Concat(q) == IF q = <<>> THEN "" ELSE Head(q) \o Concat(Tail(q))

(* C16: sendAndCollect: for every sequence of stream lines after a 2xx      *)
(* response the call returns normally, and the text returned is the         *)
(* fragments of the JSON-object lines concatenated in arrival order with    *)
(* no separator; lines that are not JSON objects contribute nothing and     *)
(* are not fatal, and a stream without fragments gives the empty string.    *)
C16_CollectsFragments ==
    script = "chat_stream" =>
        /\ pc # "exit"
        /\ pc = "done" =>
              printed = Concat([k \in DOMAIN args |-> Fragment(args[k])])

\* the lines of the reply that are not empty once trimmed, in order
NonEmptyLines == SelectSeq(args, LAMBDA l : Strip(l) # "")

EndsWith(s, suffix) ==
    Len(s) >= Len(suffix) /\ SubSeq(s, Len(s) - Len(suffix) + 1, Len(s)) = suffix

(* C17: the line parser returns failure exactly when the reply has fewer    *)
(* than 3 non-empty lines (a line of whitespace counts as empty); otherwise *)
(* it returns exactly 3 questions, the i-th taken from the i-th non-empty   *)
(* line (its text from some position to its end), and later lines have no   *)
(* influence.                                                               *)
C17_ThreeNonEmptyLines ==
    (script = "_parse_three_questions" /\ pc = "done") =>
        /\ printed = Null <=> Len(NonEmptyLines) < 3
        /\ printed # Null =>
              /\ printed.t = "list" /\ Len(printed.v) = 3
              /\ \A i \in 1..3 :
                    /\ printed.v[i] # ""
                    /\ EndsWith(Strip(NonEmptyLines[i]), printed.v[i])
              /\ printed = _parse_three_questions(JoinLines(SubSeq(NonEmptyLines, 1, 3)))

\* a reply of four lines, the second of them blank: three questions
C17_Witness ==
    /\ script = "_parse_three_questions" /\ pc = "done"
    /\ args = <<"1. Question A", "  ", " Plain question? ", "3 - Question C">>
    /\ printed = Lst(<<"Question A", "Plain question?", "Question C">>)

\* the line without a leading marker of the forms "N.", "N)", "N -": digits,
\* then one of . ) - with whitespace around it, then the text
WithoutListedMarker(line) ==
    LET d  == RunLen(line, 1, Digits)
        w1 == RunLen(line, d + 1, Whitespace)
        w2 == RunLen(line, d + w1 + 2, Whitespace)
    IN IF /\ d > 0
          /\ d + w1 + 1 + w2 < Len(line)
          /\ Ch(line, d + w1 + 1) \in {".", ")", "-"}
       THEN SubSeq(line, d + w1 + w2 + 2, Len(line))
       ELSE line

\* the line without its leading digits and the run of . ) - and whitespace
\* that follows them; when nothing would be left, the last of at least two
\* such characters is the text, and a line with one is kept whole
WithoutDigitsAndSeparators(line) ==
    LET d == RunLen(line, 1, Digits)
        p == RunLen(line, d + 1, {".", ")", "-", " ", "\t", "\n", "\r"})
    IN IF d = 0 \/ p = 0 THEN line
       ELSE IF d + p < Len(line) THEN SubSeq(line, d + p + 1, Len(line))
       ELSE IF p >= 2 THEN SubSeq(line, Len(line), Len(line))
       ELSE line

(* C18 as stated: from each of the first 3 non-empty lines the parser       *)
(* strips a leading marker of the forms "N.", "N)", "N -" (with whitespace  *)
(* around it), and a line without such a marker is kept unchanged apart     *)
(* from trimming.                                                           *)
C18_StripsListedMarkers ==
    (script = "_parse_three_questions" /\ pc = "done" /\ printed # Null) =>
        \A i \in 1..3 :
            printed.v[i] = WithoutListedMarker(Strip(NonEmptyLines[i]))

(* C18 amended: from each of the first 3 non-empty lines the parser strips  *)
(* the leading digits together with the whole run of . ) - and whitespace   *)
(* characters after them, so also "N " before text; a line of digits and    *)
(* such characters only keeps its last character when there are at least    *)
(* two of them and is kept whole otherwise; every other line is kept        *)
(* unchanged apart from trimming.                                           *)
C18_StripsDigitsAndSeparators ==
    (script = "_parse_three_questions" /\ pc = "done" /\ printed # Null) =>
        \A i \in 1..3 :
            printed.v[i] = WithoutDigitsAndSeparators(Strip(NonEmptyLines[i]))

\* the three marker forms, each stripped
C18_Witness ==
    /\ script = "_parse_three_questions" /\ pc = "done"
    /\ args = <<"1. Question A", "2) Question B", "3 - Question C">>
    /\ printed = Lst(<<"Question A", "Question B", "Question C">>)

\* the envelope has exactly the keys query_status, count, data, and its count
\* is the length of its data
WellFormedEnvelope(e) ==
    /\ e.t = "obj"
    /\ DOMAIN e.v = {"query_status", "count", "data"}
    /\ e.v.data.t = "list"
    /\ e.v.count = Num(Len(e.v.data.v))

\* the totals the summary of a markdown report states
TotalsOf(md) ==
    {SubSeq(md[k], Len("- **Total indicators:** ") + 1, Len(md[k])) :
        k \in {j \in DOMAIN md : StartsWith(md[j], "- **Total indicators:** ")}}

(* C19: after a feed response with status "ok" the envelope the daily       *)
(* report keeps and uploads, and the one the feed-client script prints, has *)
(* exactly the keys query_status, count and data with count the length of   *)
(* data, whatever count the feed reported; the uploaded markdown report     *)
(* states one total, and it is that count.                                  *)
C19_CountIsLenData ==
    /\ (script = "daily" /\ pc \notin {"start", "fetch", "exit"}) =>
           WellFormedEnvelope(normalized)
    /\ normalized # Null =>
           /\ WellFormedEnvelope(normalized)
           /\ Last(SelectSeq(log, LAMBDA e : e.op = "feed")).query_status = Str("ok")
    /\ printed # Null /\ script = "ioc" => WellFormedEnvelope(printed)
    /\ \A k \in LogIdx("upload") :
          IF log[k].file = "threatfox_iocs.json"
          THEN log[k].content = normalized
          ELSE TotalsOf(log[k].content) = {ToString(Len(normalized.v.data.v))}

\* the feed reported 5 indicators and sent 2 records: both uploaded documents
\* say 2
C19_Witness ==
    /\ script = "daily" /\ pc = "done"
    /\ log[1].op = "feed" /\ log[1].reported = Num(5)
    /\ \E j, m \in LogIdx("upload") :
          /\ log[j].file = "threatfox_iocs.json"
          /\ log[j].content.v.count = Num(2) /\ Len(log[j].content.v.data.v) = 2
          /\ log[m].file = "threatfox_report.md"
          /\ TotalsOf(log[m].content) = {"2"}

\* the number of | in s that no backslash precedes
RECURSIVE UnescapedPipes(_, _)
UnescapedPipes(s, i) ==
    IF i > Len(s) THEN 0
    ELSE (IF Ch(s, i) = "|" /\ (i = 1 \/ Ch(s, i - 1) # "\\") THEN 1 ELSE 0)
             + UnescapedPipes(s, i + 1)

\* the number of | in s
Pipes(s) == Cardinality({i \in 1..Len(s) : Ch(s, i) = "|"})

\* the text of field k of a record, the empty string when missing or null
FieldText(row, k) == IF Truthy(Get(row, k)) THEN Get(row, k).v ELSE ""

\* the | characters in the four text cells of the sample row of a record
PipesInCells(row) ==
    Pipes(FieldText(row, "ioc"))
    + Pipes(IF FieldText(row, "malware_printable") # ""
            THEN FieldText(row, "malware_printable") ELSE FieldText(row, "malware"))
    + Pipes(FieldText(row, "threat_type"))
    + Pipes(FieldText(row, "first_seen"))

\* where the sample table begins: the position of its separator line
TableAt(md) ==
    CHOOSE k \in DOMAIN md :
        md[k] = "|-----|---------|-------------|------------|------------|"

(* C20: in the sample table of the markdown report the row of every record  *)
(* has exactly 6 unescaped | (the 5 columns of the header), every | of its  *)
(* indicator, malware, threat-type and first-seen value being preceded by   *)
(* a backslash; there is one row per record, in the order of the records.   *)
C20_RowsHaveFiveColumns ==
    (script = "build_markdown_report" /\ pc = "done") =>
        LET t == TableAt(printed) IN
        /\ UnescapedPipes(printed[t - 1], 1) = 6
        /\ Len(printed) = t + Len(args) + 2
        /\ printed[t + Len(args) + 1] = ""
        /\ \A k \in DOMAIN args :
              /\ UnescapedPipes(printed[t + k], 1) = 6
              /\ Pipes(printed[t + k]) = 6 + PipesInCells(args[k])

\* a report of two records, the second with | in all four text values
C20_Witness ==
    /\ script = "build_markdown_report" /\ pc = "done"
    /\ args = <<IocFull, IocPipes>>
    /\ printed[TableAt(printed) + 2] =
          "| \\|a\\|\\|b\\| | Agent\\|Tesla | pay\\|load | 2026-01-27\\|10:00 | 100 |"

\* the first of the named fields of a record that holds text, else dflt
FirstText(row, keys, dflt) ==
    IF \E i \in DOMAIN keys : FieldText(row, keys[i]) # ""
    THEN FieldText(row, keys[Min({i \in DOMAIN keys : FieldText(row, keys[i]) # ""})])
    ELSE dflt

\* the sample row of a record when a missing malware family is shown as dMal,
\* a missing threat type as dTt, a missing first-seen or confidence as ""
RowWith(row, dMal, dTt) ==
    "| " \o EscapePipes(FieldText(row, "ioc"))
    \o " | " \o EscapePipes(FirstText(row, <<"malware_printable", "malware">>, dMal))
    \o " | " \o EscapePipes(FirstText(row, <<"threat_type">>, dTt))
    \o " | " \o EscapePipes(FieldText(row, "first_seen"))
    \o " | " \o (IF "confidence_level" \in DOMAIN row.v
                 THEN ToString(row.v["confidence_level"].v) ELSE "")
    \o " |"

\* the lines of the list under the given heading of a report
ListUnder(md, heading) ==
    LET h == CHOOSE k \in DOMAIN md : md[k] = heading
        e == Min({j \in DOMAIN md : j > h + 1 /\ md[j] = ""})
    IN SubSeq(md, h + 2, e - 1)

\* the list counts each name once, with the number of records that carry it
CountsNames(list, names) ==
    /\ Len(list) = Cardinality({names[k] : k \in DOMAIN names})
    /\ \A k \in DOMAIN names :
          \E j \in DOMAIN list :
              list[j] = "- " \o names[k] \o ": " \o ToString(CountOf(names, names[k]))

\* the name a record is counted under in the two frequency lists
MalwareName(row) == FirstText(row, <<"malware_printable", "malware">>, "Unknown")
ThreatName(row) == FirstText(row, <<"threat_type", "threat_type_desc">>, "Unknown")

Contains(s, sub) ==
    \E i \in 1..(Len(s) - Len(sub) + 1) : SubSeq(s, i, i + Len(sub) - 1) = sub

\* the mission given to the template strategy is a text that is not blank
MissionSupplied == args # Null /\ Strip(args.v) # ""

(* C22: the template strategy never fails and returns exactly 3 questions;  *)
(* for a non-blank mission each of the 3 contains the mission text (trimmed *)
(* of surrounding whitespace); without a mission (none, or a blank one) the *)
(* 3 fixed questions are returned unchanged.                                *)
C22_TemplateQuestions ==
    script = "_template_questions" =>
        /\ ~crashed /\ pc # "exit"
        /\ pc = "done" =>
              /\ Len(printed) = 3
              /\ MissionSupplied =>
                    \A k \in 1..3 : Contains(printed[k], Strip(args.v))
              /\ ~MissionSupplied => printed = TEMPLATE_QUESTIONS

\* the mission of the specification's example
C22_Witness ==
    /\ script = "_template_questions" /\ pc = "done"
    /\ args = Str("ransomware triage")
    /\ Len(printed) = 3
    /\ \A k \in 1..3 : Contains(printed[k], "ransomware triage")
    /\ printed # TEMPLATE_QUESTIONS

\* what each of the three shapes of a create response yields, in the order
\* top-level slug, slug of the nested workspace, first entry of the list
SlugShapes(body) ==
    << Get(body, "slug"),
       IF Truthy(Get(body, "workspace")) THEN Get(Get(body, "workspace"), "slug")
       ELSE Null,
       IF Truthy(Get(body, "workspaces"))
       THEN LET w == Get(body, "workspaces").v[1]
            IN IF w.t = "obj" THEN Get(w, "slug") ELSE w
       ELSE Null >>

TransportFailed(k) == log[k].res \in {"transport", "status"}

(* C24: a transport failure of the workspace list request or of the         *)
(* workspace create request ends the run with a non-zero exit status: it is *)
(* the last request of the run, a failed list is never followed by a create *)
(* request, and no thread-create, upload or chat request is ever issued.    *)
C24_WorkspaceFailureFatal ==
    \A k \in LogIdx("ws_list") \cup LogIdx("ws_create") :
        TransportFailed(k) =>
            /\ pc = "exit" /\ exitCode # 0
            /\ k = Len(log)
            /\ log[k].op = "ws_list" => ~Issued("ws_create")
            /\ ~Issued("thread_create") /\ ~Issued("upload") /\ ~Issued("chat")

\* the list request succeeded and found nothing, then the create request
\* got no response
C24_Witness ==
    /\ script = "daily"
    /\ \E k \in LogIdx("ws_list") : ~TransportFailed(k)
    /\ \E k \in LogIdx("ws_create") : log[k].res = "transport"
    /\ pc = "exit" /\ exitCode = 1

\* the JSON object a stream line carries, or Null when it carries none
EventOf(line) ==
    LET raw0 == Strip(line)
        raw  == IF StartsWith(raw0, "data: ") THEN SubSeq(raw0, 7, Len(raw0)) ELSE raw0
        ev   == json_loads(raw)
    IN IF ev.exc = "none" /\ ev.val.t = "obj" THEN ev.val ELSE Null

\* a value that is passed over: null, or an empty text, list or object
Empty(v) ==
    \/ v.t = "null"
    \/ v.t \in {"str", "list"} /\ Len(v.v) = 0
    \/ v.t = "obj" /\ DOMAIN v.v = {}

FragmentFields == << "textResponse", "text", "delta" >>

\* the fields of an event that are neither absent nor empty, by priority
Candidates(event) ==
    {i \in 1..3 : /\ FragmentFields[i] \in DOMAIN event.v
                  /\ ~Empty(event.v[FragmentFields[i]])}

\* what one stream line adds to the text: the value of the first candidate
\* field of its event when that is a text, nothing otherwise
Contribution(line) ==
    LET event == EventOf(line) IN
    IF event = Null \/ Candidates(event) = {} THEN ""
    ELSE LET chosen == event.v[FragmentFields[Min(Candidates(event))]]
         IN IF chosen.t = "str" THEN chosen.v ELSE ""

ThreadChats == {k \in LogIdx("chat") : log[k].thread # Null}
WorkspaceChats == {k \in LogIdx("chat") : log[k].thread = Null}

\* the thread-create request of the run returned a slug
ThreadCreatedRemotely == \E t \in LogIdx("thread_create") : Truthy(log[t].returned)

\* the chat request at position k was answered with status 400 or 404
Refused(k) == log[k].res = "status" /\ log[k].status \in {400, 404}

(* C26: in the chat script the question is sent to the workspace itself     *)
(* only directly after a thread-level chat request that was answered with   *)
(* 400 or 404 in a run whose thread creation returned no slug, and then     *)
(* exactly once; a thread-level chat failure in any other situation (thread *)
(* created remotely, another status, no response) is the last request of    *)
(* the run, which ends with a non-zero exit status.                         *)
C26_FallbackOnlyWithoutRemoteThread ==
    script = "chat" =>
        /\ Cardinality(ThreadChats) <= 1
        /\ Cardinality(WorkspaceChats) <= 1
        /\ \A w \in WorkspaceChats :
              /\ w - 1 \in ThreadChats
              /\ Refused(w - 1)
              /\ ~ThreadCreatedRemotely
              /\ log[w].message = log[w - 1].message
        /\ \A k \in ThreadChats :
              log[k].res # "ok" =>
                 IF Refused(k) /\ ~ThreadCreatedRemotely
                 THEN \/ k = Len(log) /\ pc = "chat_ws"
                      \/ k + 1 \in WorkspaceChats
                 ELSE k = Len(log) /\ pc = "exit" /\ exitCode # 0

\* thread creation returned no slug, the thread-level chat got a 404 and the
\* question was answered at workspace level
C26_Witness ==
    /\ script = "chat" /\ pc = "done"
    /\ ~ThreadCreatedRemotely
    /\ \E k \in ThreadChats : log[k].status = 404 /\ k + 1 \in WorkspaceChats
    /\ log[Len(log)].res = "ok"

====
